---- MODULE Spec2Model ----
(***************************************************************************)
(* Verification model of the inkGrid glyph-extraction core:                *)
(*   - SequenceAligner   (scripts/ml_align_sequence.py)                    *)
(*   - AxisPartitioner   (scripts/workbench_build_dataset.py split_axis,   *)
(*                        scripts/extract_lantingjixu_chars.py)            *)
(*   - CropRefiner       (expand_crop_box_by_contact + ContactAnalyzer)    *)
(*   - LayoutEngine / dataset index / manual crop overrides                *)
(* Costs are fixed-point integers: 100 units = 1.0.                        *)
(***************************************************************************)
EXTENDS Integers, Sequences, FiniteSets, TLC

VARIABLES
    \* ---- SequenceAligner (ml_align_sequence.py main) ----
    text,        \* gold transcription, a sequence of characters
    ids,         \* detection ids, in reading order
    scores,      \* clamped detection scores (per mille)
    preds,       \* classifier predictions: id -> sequence of [ch, p]
    pens,        \* [skip_det, skip_char, match2] penalties
    dp,          \* dp[i][j], i \in 0..n, j \in 0..m
    prev,        \* prev[i][j]: Step record or NoStep
    ci, cj,      \* position of the DP double loop
    bi, bj,      \* backtracking cursor (i, j)
    best_j,      \* chosen end column
    steps,       \* backtracked steps
    aligned,     \* emitted aligned items
    ti, di,      \* emission counters
    ek,          \* index of the step being emitted
    cost,        \* reported cost
    apc,         \* aligner program counter
    \* ---- AxisPartitioner (split_axis / split_column_into_chars) ----
    proj,            \* 1-D ink projection, proj[y + 1] is the source's proj[y]
    expected_count,  \* expected number of cells
    boundaries,      \* returned boundaries
    ax_error,        \* "none", or the exception the call raised
    axpc,            \* "call" before the call, then the function that ran
    \* ---- CropRefiner (expand_crop_box_by_contact) ----
    page_ink,        \* loose ink mask of the page: a set of inked rectangles
    crop_box,        \* current box [x0, y0, x1, y1]
    safe,            \* corridor [x0, y0, x1, y1] = safe_x0, safe_y0, safe_x1, safe_y1
    rparams,         \* [ring_px, accept, trigger, max_iter]
    iter,            \* iterations of the expansion loop started so far
    last_contact,    \* ContactInk measured by the latest iteration
    rpc,             \* "call", "loop", "done"
    \* ---- dataset index (workbench_build_dataset, apply_crop_overrides) ----
    img_ink,         \* ink of the page image: a set of inked rectangles
    page_direction,  \* "vertical_rtl" or "horizontal_ltr"
    page_cols,       \* columns expected on the page
    page_rows,       \* rows expected on the page
    page_layout,     \* cached layout of the page in pages.json
    index_entries,   \* index.json "files": one entry per cell, in emission order
    build_error,     \* "none" or the exception that ended the latest build
    ipc,             \* "new", "built", "overridden"
    crop_overrides,  \* crop_overrides of the overrides file applied last
    only_files,      \* --only-files of that run
    \* ---- reading-order index (workbench_build_dataset, all pages) ----
    pages,           \* ordered pages: [direction, cols, rows] per page
    align_text,      \* text_trad of alignment.json, "" when absent
    page_i,          \* pages processed so far
    global_idx,      \* running glyph number
    all_entries,     \* entries appended so far, over all pages
    index_json,      \* the written index.json: [total_chars, files]
    opc,             \* "pages", "written", "failed"
    \* ---- QA report (qa_char_crops.py main) ----
    qa_files,        \* index.json "files" with the PNG each file name holds
    report_entries,  \* report entries, in list order
    qpc,             \* "index", "loaded", "overlap", "dup", "written"
    \* ---- InkMask (ink_mask) ----
    arr,             \* RGB pixels, <<r, g, b>> each
    thr_pair,        \* [lo, hi]: the two ink thresholds compared
    mask_lo,         \* ink_mask(arr, lo), <<>> before the call
    mask_hi,         \* ink_mask(arr, hi), <<>> before the call
    mpc,             \* set of the calls made so far
    \* ---- box clamping (clamp_box, override clamp, refiner clamp) ----
    cl_routine,      \* "clamp_box", "override" or "refiner"
    cl_box,          \* the box handed to the clamp
    cl_bounds,       \* the page (0, 0, w, h) or the corridor clamped to
    cl_out,          \* the clamped box
    cpc,             \* "call", "done"
    \* ---- column splitter (split_column_into_chars) ----
    col_rows,        \* ink pixels of the column per row: ink_col.sum(axis=1)
    col_count,       \* expected_count
    char_boxes,      \* returned cells, <<y0, y1>> each
    col_path,        \* "none", "single", "dp" or "greedy": how boundaries were found
    col_error,       \* "none", or the exception the call raised
    kpc,             \* "call", "done"
    \* ---- SquareRenderer (render_square, compute_center_offset) ----
    rs_img,          \* the crop: [w, h, mx, my], a rectangle with margins mx, my
    rs_size,         \* canvas side
    rs_inner_pad,    \* inner_pad
    rs_canvas,       \* the rendered canvas: paste position, pasted size, ink
    rs_center,       \* CenterOffset of the canvas, NoCenter for None
    npc,             \* "crop", "rendered", "measured"
    \* ---- split builder (ml_split_and_build_dataset.py main) ----
    sp_aligned,      \* aligned[] of alignment-json: [id, take, text]
    sp_k,            \* position of the loop over aligned, 1-based
    sp_entries,      \* entries
    out_idx,         \* out_idx
    sp_index,        \* the written index.json, NoIndex before
    sp_error,        \* "none", or the exception that ended the build
    spc,             \* "items", "written", "failed"
    \* ---- detector refiner expansion loop (ml_refine_crops_with_detector.py main) ----
    ex_ink,          \* loose_ink of the page, as ink rectangles
    ex_safe_row,     \* safe_row_box
    ex_params,       \* expand_ring_px, expand_side_thr, expand_step_min, expand_max_iters
    ex_box0,         \* crop_box before the loop
    ex_box,          \* crop_box
    expand_log,      \* expand_log
    epc,             \* "loop", "done"
    \* ---- ContactAnalyzer, three implementations ----
    ct_ink,          \* page ink, as ink rectangles
    ct_box,          \* crop_box
    ct_ring_px,      \* ring_px
    ct_extract,      \* ContactInk of contact_ring_ink_directional
    ct_sides,        \* result of contact_ink_sides
    ct_qa,           \* OuterRingInk of compute_outer_ring_ink
    tpc,             \* set of the calls made so far
    \* ---- GlyphTrimmer (trim_glyph) ----
    tg_img,          \* the context crop: size, strict components, faint ink
    tg_center,       \* expected_center, doubled
    tg_pad_px,       \* pad_px
    tg_out,          \* returned bbox (NoBox for None) and quality
    gpc,             \* "call", "done"
    \* ---- job status file (workbench_service, workbench_build_dataset) ----
    job_file,        \* content of jobs/<job_id>.json
    last_status,     \* status of the last record written to the file
    svc_pc,          \* position of the service thread
    svc_op,          \* step of its _update_job call: "read", "truncate", "write"
    svc_cur,         \* cur of that call
    sub_k,           \* number of update_job calls the subprocess has begun
    sub_op,          \* "none", "idle", "read", "truncate", "write", "exited"
    sub_cur,         \* cur of its update_job call
    pipe_lines,      \* lines in the stdout pipe not yet read
    printed,         \* lines the subprocess has printed
    sub_rc,          \* exit code, -1 while running
    \* ---- job creation (WorkbenchService.create_job) ----
    clock,           \* wall clock, in seconds
    created,         \* job ids returned by the create_job calls, in call order
    jobs_dir,        \* jobs/: job id -> record of <job_id>.json
    thread_pc        \* per call: "start", "run", "end"

alVars == <<text, ids, scores, preds, pens, dp, prev, ci, cj, bi, bj,
            best_j, steps, aligned, ti, di, ek, cost, apc>>

axVars == <<proj, expected_count, boundaries, ax_error, axpc>>

rfVars == <<page_ink, crop_box, safe, rparams, iter, last_contact, rpc>>

ixVars == <<img_ink, page_direction, page_cols, page_rows, page_layout,
            index_entries, build_error, ipc, crop_overrides, only_files>>

odVars == <<pages, align_text, page_i, global_idx, all_entries, index_json, opc>>

qaVars == <<qa_files, report_entries, qpc>>

mkVars == <<arr, thr_pair, mask_lo, mask_hi, mpc>>

clVars == <<cl_routine, cl_box, cl_bounds, cl_out, cpc>>

scVars == <<col_rows, col_count, char_boxes, col_path, col_error, kpc>>

rnVars == <<rs_img, rs_size, rs_inner_pad, rs_canvas, rs_center, npc>>

spVars == <<sp_aligned, sp_k, sp_entries, out_idx, sp_index, sp_error, spc>>

exVars == <<ex_ink, ex_safe_row, ex_params, ex_box0, ex_box, expand_log, epc>>

ctVars == <<ct_ink, ct_box, ct_ring_px, ct_extract, ct_sides, ct_qa, tpc>>

tgVars == <<tg_img, tg_center, tg_pad_px, tg_out, gpc>>

jbVars == <<job_file, last_status, svc_pc, svc_op, svc_cur, sub_k, sub_op, sub_cur,
            pipe_lines, printed, sub_rc>>

cjVars == <<clock, created, jobs_dir, thread_pc>>

vars == <<alVars, axVars, rfVars, ixVars, odVars, qaVars, mkVars, clVars, scVars, rnVars, spVars, exVars, ctVars, tgVars, jbVars, cjVars>>

\* ------------------------------------------------------------------------
\* Generic helpers
\* ------------------------------------------------------------------------
Min2(a, b) == IF a <= b THEN a ELSE b
Max2(a, b) == IF a >= b THEN a ELSE b

RECURSIVE SeqSum(_)
SeqSum(s) == IF s = <<>> THEN 0 ELSE Head(s) + SeqSum(Tail(s))

Reverse(s) == [k \in 1..Len(s) |-> s[Len(s) + 1 - k]]

\* ------------------------------------------------------------------------
\* SequenceAligner
\* ------------------------------------------------------------------------
MaxDets == 3
MaxText == 3

INF == 1000000000
NoStep == [op |-> "none", i |-> 0, j |-> 0, take |-> 0]
Step(op, i, j, take) == [op |-> op, i |-> i, j |-> j, take |-> take]

Alphabet == {"a", "b"}
RawScores == {1000, 449}
DetIds == <<"d1", "d2", "d3", "d4", "d5">>

\* scores.append(max(1e-6, min(1.0, s))): per-mille, 0 stands for the 1e-6 floor
ClampScore(s) == Max2(0, Min2(1000, s))

\* -math.log(x) in cost units for the clamped levels used by the model:
\* -ln(1.0) = 0, -ln(0.449) = 0.80, -ln(0.091) = 2.40, -ln(1e-6) = 13.8
NegLog(p) ==
    CASE p >= 1000 -> 0
      [] p >= 449 -> 80
      [] p >= 91 -> 240
      [] OTHER -> 1380

cls_miss_pen == 140
\* cls_weight = 0.7, applied as a fixed-point product
ClsWeight(x) == (7 * x) \div 10

PenProfiles ==
    { [skip_det |-> 120, skip_char |-> 100, match2 |-> 45],
      [skip_det |-> 40,  skip_char |-> 100, match2 |-> 45],
      [skip_det |-> 120, skip_char |-> 0,   match2 |-> 0],
      [skip_det |-> 0,   skip_char |-> 100, match2 |-> 45] }

NoPreds == [d \in {} |-> <<>>]
PredOptions ==
    { NoPreds,
      [d \in {"d2"} |-> <<[ch |-> "a", p |-> 1000]>>],
      [d \in {"d1", "d2"} |->
          IF d = "d1" THEN <<[ch |-> "b", p |-> 449]>>
          ELSE <<[ch |-> "a", p |-> 449], [ch |-> "b", p |-> 1000]>>] }

match_cost_Flat(i) == 0
match_cost(i) == NegLog(scores[i + 1])

RECURSIVE CandPenalty(_, _)
CandPenalty(cand, gold) ==
    IF cand = <<>> THEN cls_miss_pen
    ELSE IF Head(cand).ch = gold
         THEN ClsWeight(NegLog(ClampScore(Head(cand).p)))
         ELSE CandPenalty(Tail(cand), gold)

cls_penalty(det_id, gold) ==
    IF DOMAIN preds = {} THEN 0
    ELSE IF det_id \notin DOMAIN preds THEN 0
    ELSE IF preds[det_id] = <<>> THEN 0
    ELSE CandPenalty(preds[det_id], gold)

N == Len(ids)
M == Len(text)

AlignInit ==
    /\ \E n \in 0..MaxDets :
         /\ ids = SubSeq(DetIds, 1, n)
         /\ scores \in [1..n -> {ClampScore(s) : s \in RawScores}]
    /\ \E m \in 0..MaxText : text \in [1..m -> Alphabet]
    /\ preds \in PredOptions
    /\ pens \in PenProfiles
    /\ dp = [i \in 0..Len(ids) |-> [j \in 0..Len(text) |->
                IF i = 0 /\ j = 0 THEN 0 ELSE INF]]
    /\ prev = [i \in 0..Len(ids) |-> [j \in 0..Len(text) |-> NoStep]]
    /\ ci = 0 /\ cj = 0
    /\ bi = 0 /\ bj = 0
    /\ best_j = 0
    /\ steps = <<>>
    /\ aligned = <<>>
    /\ ti = 0 /\ di = 0
    /\ ek = 1
    /\ cost = 0
    /\ apc = "dp"

\* One relaxation "if v < dp[a][b]: dp[a][b] = v; prev[a][b] = st".
Relax(tab, a, b, v, st) ==
    IF v < tab.dp[a][b]
    THEN [dp |-> [tab.dp EXCEPT ![a][b] = v],
          prev |-> [tab.prev EXCEPT ![a][b] = st]]
    ELSE tab

SkipDetCost_NoPenalty(i) == match_cost(i) \div 4
SkipDetCost(i) == pens.skip_det + (match_cost(i) \div 4)
SkipCharCost == pens.skip_char
Match1Cost(i, j) == match_cost(i) + cls_penalty(ids[i + 1], text[j + 1])
Match2Cost_NoPenalty(i, j) ==
    match_cost(i)
    + cls_penalty(ids[i + 1], text[j + 1])
    + cls_penalty(ids[i + 1], text[j + 2])
Match2Cost(i, j) ==
    match_cost(i) + pens.match2
    + cls_penalty(ids[i + 1], text[j + 1])
    + cls_penalty(ids[i + 1], text[j + 2])

\* Body of the double loop for one cell (i, j).
DPCellBody(tab, i, j) ==
    LET cur == tab.dp[i][j]
        t1 == IF i < N
              THEN Relax(tab, i + 1, j, cur + SkipDetCost(i), Step("skip_det", i, j, 0))
              ELSE tab
        t2 == IF j < M
              THEN Relax(t1, i, j + 1, cur + SkipCharCost, Step("skip_char", i, j, 0))
              ELSE t1
        t3 == IF i < N /\ j < M
              THEN Relax(t2, i + 1, j + 1, cur + Match1Cost(i, j), Step("match1", i, j, 1))
              ELSE t2
        t4 == IF i < N /\ j + 1 < M
              THEN Relax(t3, i + 1, j + 2, cur + Match2Cost(i, j), Step("match2", i, j, 2))
              ELSE t3
    IN IF cur >= INF THEN tab ELSE t4

DPCell ==
    /\ apc = "dp"
    /\ LET t == DPCellBody([dp |-> dp, prev |-> prev], ci, cj)
       IN /\ dp' = t.dp
          /\ prev' = t.prev
    /\ IF cj < M
       THEN /\ cj' = cj + 1 /\ ci' = ci /\ apc' = "dp"
       ELSE IF ci < N
            THEN /\ ci' = ci + 1 /\ cj' = 0 /\ apc' = "dp"
            ELSE /\ ci' = ci /\ cj' = cj /\ apc' = "pick"
    /\ UNCHANGED <<text, ids, scores, preds, pens, bi, bj, best_j, steps, aligned, ti, di, ek, cost>>

ArgMinFirst_WholeText(row, hi) == hi
\* min(range(m + 1), key=lambda jj: dp[n][jj]) : the first index of a minimum
ArgMinFirst(row, hi) ==
    CHOOSE j \in 0..hi :
        /\ \A k \in 0..hi : row[j] <= row[k]
        /\ \A k \in 0..(j - 1) : row[k] > row[j]

PickBest ==
    /\ apc = "pick"
    /\ best_j' = ArgMinFirst(dp[N], M)
    /\ bi' = N
    /\ bj' = ArgMinFirst(dp[N], M)
    /\ apc' = "backtrack"
    /\ UNCHANGED <<text, ids, scores, preds, pens, dp, prev, ci, cj, steps, aligned, ti, di, ek, cost>>

\* while i > 0 or j > 0: st = prev[i][j]; if st is None: break; ...
BacktrackStep ==
    /\ apc = "backtrack"
    /\ IF (bi > 0 \/ bj > 0) /\ prev[bi][bj] # NoStep
       THEN /\ steps' = Append(steps, prev[bi][bj])
            /\ bi' = prev[bi][bj].i
            /\ bj' = prev[bi][bj].j
            /\ apc' = "backtrack"
       ELSE /\ steps' = Reverse(steps)
            /\ UNCHANGED <<bi, bj>>
            /\ apc' = "emit"
    /\ UNCHANGED <<text, ids, scores, preds, pens, dp, prev, ci, cj, best_j, aligned, ti, di, ek, cost>>

Slice_OffByOne(s, from, k) == SubSeq(s, from + 2, Min2(Len(s), from + k + 1))
\* text[ti : ti + k] (Python slice, clipped at the end of the string)
Slice(s, from, k) == SubSeq(s, from + 1, Min2(Len(s), from + k))

Item(id, det, txt, tidx, take, score) ==
    [id |-> id, det |-> det, text |-> txt, text_index |-> tidx,
     take |-> take, score |-> score]

EmitStep ==
    /\ apc = "emit"
    /\ ek <= Len(steps)
    /\ LET st == steps[ek] IN
       CASE st.op = "skip_det" ->
              /\ di' = di + 1
              /\ UNCHANGED <<ti, aligned>>
         [] st.op = "skip_char" ->
              /\ ti' = ti + 1
              /\ UNCHANGED <<di, aligned>>
         [] st.op = "match1" ->
              /\ aligned' = Append(aligned,
                     Item(ids[di + 1], di, Slice(text, ti, 1), ti, 1, scores[di + 1]))
              /\ di' = di + 1
              /\ ti' = ti + 1
         [] st.op = "match2" ->
              /\ aligned' = Append(aligned,
                     Item(ids[di + 1], di, Slice(text, ti, 2), ti, 2, scores[di + 1]))
              /\ di' = di + 1
              /\ ti' = ti + 2
    /\ ek' = ek + 1
    /\ UNCHANGED <<text, ids, scores, preds, pens, dp, prev, ci, cj, bi, bj,
                   best_j, steps, cost, apc>>

\* out = {..., "best_end_text_index": best_j, "cost": dp[n][best_j], "aligned": aligned}
WriteOut ==
    /\ apc = "emit"
    /\ ek > Len(steps)
    /\ cost' = dp[N][best_j]
    /\ apc' = "done"
    /\ UNCHANGED <<text, ids, scores, preds, pens, dp, prev, ci, cj, bi, bj,
                   best_j, steps, aligned, ti, di, ek>>

AlignStep == DPCell \/ PickBest \/ BacktrackStep \/ EmitStep \/ WriteOut

\* ------------------------------------------------------------------------
\* SequenceAligner: properties
\* ------------------------------------------------------------------------
AllConfident == \A k \in 1..N : scores[k] = 1000
OpsOf(ss) == [k \in 1..Len(ss) |-> ss[k].op]
IdentityItems ==
    [k \in 1..N |-> Item(ids[k], k - 1, <<text[k]>>, k - 1, 1, scores[k])]
IdentityCase == apc = "done" /\ N = M /\ AllConfident /\ preds = NoPreds
NonNegPens == pens.skip_det >= 0 /\ pens.skip_char >= 0 /\ pens.match2 >= 0

LowDets == {k \in 1..N : scores[k] < 1000}
NoiseCase ==
    /\ apc = "done" /\ N = M + 1 /\ preds = NoPreds
    /\ Cardinality(LowDets) = 1
Noise == CHOOSE k \in LowDets : TRUE
Orig(k) == IF k < Noise THEN k ELSE k + 1
\* "skip_det penalty small relative to a forced bad match": skipping the
\* noise detection is cheaper than matching it.
SmallSkipPen ==
    \A k \in LowDets : pens.skip_det + (NegLog(scores[k]) \div 4) < NegLog(scores[k])
NoiseSkipped ==
    /\ aligned = [k \in 1..M |->
                    Item(ids[Orig(k)], Orig(k) - 1, <<text[k]>>, k - 1, 1, scores[Orig(k)])]
    /\ OpsOf(steps) = [k \in 1..N |-> IF k = Noise THEN "skip_det" ELSE "match1"]

StepCost(st) ==
    CASE st.op = "skip_det" -> SkipDetCost(st.i)
      [] st.op = "skip_char" -> SkipCharCost
      [] st.op = "match1" -> Match1Cost(st.i, st.j)
      [] st.op = "match2" -> Match2Cost(st.i, st.j)

\* Minimum cost over all operation sequences that start at (i, j), consume the
\* remaining detections in order and stop after any prefix of the text.
RECURSIVE BestFrom(_, _)
BestFrom(i, j) ==
    LET stop == IF i = N THEN {0} ELSE {}
        sd == IF i < N THEN {SkipDetCost(i) + BestFrom(i + 1, j)} ELSE {}
        sc == IF j < M THEN {SkipCharCost + BestFrom(i, j + 1)} ELSE {}
        m1 == IF i < N /\ j < M THEN {Match1Cost(i, j) + BestFrom(i + 1, j + 1)} ELSE {}
        m2 == IF i < N /\ j + 1 < M THEN {Match2Cost(i, j) + BestFrom(i + 1, j + 2)} ELSE {}
        all == stop \cup sd \cup sc \cup m1 \cup m2
    IN CHOOSE c \in all : \A d \in all : c <= d

\* steps is a path from (0, 0) to (N, best_j)
StepAdvance(st) ==
    CASE st.op = "skip_det" -> <<st.i + 1, st.j>>
      [] st.op = "skip_char" -> <<st.i, st.j + 1>>
      [] st.op = "match1" -> <<st.i + 1, st.j + 1>>
      [] st.op = "match2" -> <<st.i + 1, st.j + 2>>
StepsArePath ==
    /\ \A k \in 1..Len(steps) :
          /\ steps[k].op \in {"skip_det", "skip_char", "match1", "match2"}
          /\ <<steps[k].i, steps[k].j>> =
                IF k = 1 THEN <<0, 0>> ELSE StepAdvance(steps[k - 1])
    /\ (IF steps = <<>> THEN <<0, 0>> ELSE StepAdvance(steps[Len(steps)])) = <<N, best_j>>

\* C9: the reported cost is the minimum over all operation sequences that
\* consume all N detections and any prefix of the text, and the emitted
\* alignment is such a sequence attaining it.
C9_MinCost ==
    apc = "done" =>
        /\ cost = BestFrom(0, 0)
        /\ StepsArePath
        /\ SeqSum([k \in 1..Len(steps) |-> StepCost(steps[k])]) = cost

C9_Witness ==
    /\ apc = "done" /\ N >= 2 /\ M = MaxText
    /\ cost > 0
    /\ \E k \in 1..Len(steps) : steps[k].op = "match2"
    /\ \E k \in 1..Len(steps) : steps[k].op = "match1"

\* C10: aligned items follow detection order without repeats, text_index is
\* strictly increasing, take is 1 or 2, and text is the take characters of the
\* transcription starting at text_index.
C10_ItemsOrdered ==
    /\ \A k \in 1..Len(aligned) :
          /\ aligned[k].take \in {1, 2}
          /\ aligned[k].det \in 0..(N - 1)
          /\ aligned[k].id = ids[aligned[k].det + 1]
          /\ aligned[k].text_index \in 0..(M - 1)
          /\ Len(aligned[k].text) = aligned[k].take
          /\ \A c \in 1..aligned[k].take :
                aligned[k].text[c] = text[aligned[k].text_index + c]
    /\ \A k \in 1..(Len(aligned) - 1) :
          /\ aligned[k].det < aligned[k + 1].det
          /\ aligned[k].text_index < aligned[k + 1].text_index

C10_Witness ==
    /\ apc = "done" /\ Len(aligned) >= 2
    /\ aligned[1].take = 2
    /\ aligned[2].text_index = 2

\* the cells reached last by a match2 step from (i, j)
Match2Cells ==
    {c \in (0..(N - 1)) \X (0..(M - 2)) : prev[c[1] + 1][c[2] + 2].op = "match2"}

\* C22 (as stated): the cost of a match2 step pairing detection i with gold
\* characters j and j+1 is the match1 cost of (i, j) plus the match1 cost of
\* (i, j+1) plus the match2 penalty.
C22_Match2TwoMatch1 ==
    (apc # "dp") =>
        \A c \in Match2Cells :
            dp[c[1] + 1][c[2] + 2] =
                dp[c[1]][c[2]] + Match1Cost(c[1], c[2]) + Match1Cost(c[1], c[2] + 1) + pens.match2

\* C22 (amended): the cost of a match2 step is the match1 cost of (i, j) plus
\* the classifier penalty of (i, j+1) plus the match2 penalty; the
\* detection's -log(confidence) is counted once.
C22_Match2CountsDetOnce ==
    (apc # "dp") =>
        \A c \in Match2Cells :
            dp[c[1] + 1][c[2] + 2] =
                dp[c[1]][c[2]] + Match1Cost(c[1], c[2])
                + cls_penalty(ids[c[1] + 1], text[c[2] + 2]) + pens.match2

C22_Witness ==
    /\ apc = "done"
    /\ \E k \in 1..Len(aligned) :
          /\ aligned[k].take = 2
          /\ match_cost(aligned[k].det) > 0
          /\ <<aligned[k].det, aligned[k].text_index>> \in Match2Cells
\* ------------------------------------------------------------------------
\* AxisPartitioner
\* ------------------------------------------------------------------------
MaxLen == 40
MaxCount == 3
ProjKinds == 1..5

\* Python 3 round(): round half to even, for num >= 0 and den > 0
RoundHalfEven(num, den) ==
    LET q == num \div den
        r == num % den
    IN IF 2 * r > den THEN q + 1
       ELSE IF 2 * r < den THEN q
       ELSE IF q % 2 = 0 THEN q ELSE q + 1

\* seq[j] with Python's negative indexing (j is 0-based, j >= -Len(seq))
PyAt(seq, j) == IF j >= 0 THEN seq[j + 1] ELSE seq[Len(seq) + 1 + j]

SeqMax(sq) == IF sq = <<>> THEN 0
              ELSE CHOOSE v \in {sq[k] : k \in 1..Len(sq)} :
                      \A k \in 1..Len(sq) : sq[k] <= v

Range(lo, hi) == [k \in 1..Max2(0, hi - lo) |-> lo + k - 1]

\* Projections the model feeds to the partitioner (length n):
\* blank, uniform ink, text rows separated by gaps, a ramp, a single spike.
Projection(n, kind) ==
    [k \in 1..n |->
        CASE kind = 1 -> 0
          [] kind = 2 -> 3
          [] kind = 3 -> IF (k - 1) % 13 \in {0, 1} THEN 0 ELSE 4
          [] kind = 4 -> (k - 1) % 5
          [] OTHER    -> IF k - 1 = n \div 3 THEN 4 ELSE 1]

AxisIdle ==
    /\ proj = <<>>
    /\ expected_count = 0
    /\ boundaries = <<>>
    /\ ax_error = "none"
    /\ axpc = "idle"

\* -- split_axis (workbench_build_dataset.py) --
sa_min_cell(n, cnt) == Max2(12, RoundHalfEven(7 * n, 20 * cnt))
sa_win(n, cnt) == Max2(10, RoundHalfEven(3 * n, 5 * cnt))
sa_y_expect(n, cnt, i) == RoundHalfEven(n * i, cnt)

\* candidate window [lo, hi) of interior boundary i
sa_window(n, cnt, i) ==
    LET remaining == cnt - i
        mc == sa_min_cell(n, cnt)
        ye == sa_y_expect(n, cnt, i)
        lo == Max2(mc, ye - sa_win(n, cnt))
        hi == Min2(n - remaining * mc, ye + sa_win(n, cnt))
        lo2 == Max2(mc, Min2(ye, n - remaining * mc - 1))
    IN IF hi <= lo THEN [lo |-> lo2, hi |-> lo2 + 1] ELSE [lo |-> lo, hi |-> hi]

sa_cand_y(n, cnt, i) ==
    CHOOSE ys \in {Range(w.lo, w.hi) : w \in {sa_window(n, cnt, i)}} : TRUE

\* max(1.0, step) as the fraction sD / sN
sa_sN(n, cnt) == IF n >= cnt THEN cnt ELSE 1
sa_sD(n, cnt) == IF n >= cnt THEN n ELSE 1

\* proj_max = max(1.0, proj.max())
sa_proj_max(p) == Max2(1, SeqMax(p))

\* Costs are scaled by 20 * proj_max * sD^2 so that they are integers:
\* proj[y] / proj_max + 0.55 * dev^2
sa_cand_cost(p, pm, cnt, i, y) ==
    LET n == Len(p)
        d == (y - sa_y_expect(n, cnt, i)) * sa_sN(n, cnt)
    IN 20 * sa_sD(n, cnt) * sa_sD(n, cnt) * p[y + 1] + 11 * pm * d * d

\* 0.90 * (cell - 1)^2 with cell = (y - y_prev) / max(1, step)
sa_size_cost(n, pm, cnt, y, y_prev) ==
    LET c == (y - y_prev) * sa_sN(n, cnt) - sa_sD(n, cnt)
    IN 18 * pm * c * c

\* index (0-based) of the first least element of a non-empty sequence
FirstArgMin(sq) ==
    CHOOSE j \in 0..(Len(sq) - 1) :
        /\ \A k \in 1..Len(sq) : sq[j + 1] <= sq[k]
        /\ \A k \in 1..j : sq[k] > sq[j + 1]

\* dp[0][j] for the first interior boundary
sa_first_row(p, pm, cnt) ==
    LET ys == sa_cand_y(Len(p), cnt, 1)
    IN [j \in 1..Len(ys) |->
          [v |-> sa_cand_cost(p, pm, cnt, 1, ys[j]) + sa_size_cost(Len(p), pm, cnt, ys[j], 0),
           k |-> -1]]

sa_gap_ok(y, y_prev, mc) == y - y_prev >= mc

\* v of line 225 for candidate y = ys[j] after predecessor y_prev = yp[k]
sa_val(p, pm, cnt, i, prow, ys, yp, j, k) ==
    prow[k].v + sa_cand_cost(p, pm, cnt, i, ys[j]) + sa_size_cost(Len(p), pm, cnt, ys[j], yp[k])

\* the predecessors k that pass "y - y_prev < min_cell: continue" and "v < best"
sa_feas(p, pm, cnt, i, prow, ys, yp, j) ==
    {k \in 1..Len(yp) :
        /\ sa_gap_ok(ys[j], yp[k], sa_min_cell(Len(p), cnt))
        /\ sa_val(p, pm, cnt, i, prow, ys, yp, j, k) < INF}

\* the first k of least v among ks
sa_best_k(p, pm, cnt, i, prow, ys, yp, j, ks) ==
    CHOOSE k \in ks :
        \A k2 \in ks :
            \E v \in {sa_val(p, pm, cnt, i, prow, ys, yp, j, k)},
               v2 \in {sa_val(p, pm, cnt, i, prow, ys, yp, j, k2)} :
                v < v2 \/ (v = v2 /\ k <= k2)

sa_cell(p, pm, cnt, i, prow, ys, yp, j, ks) ==
    IF ks = {} THEN [v |-> INF, k |-> -1]
    ELSE \* dp[i][j] = best, prev[i][j] = best_k
         CHOOSE c \in {[v |-> sa_val(p, pm, cnt, i, prow, ys, yp, j, bk), k |-> bk - 1] :
                          bk \in {sa_best_k(p, pm, cnt, i, prow, ys, yp, j, ks)}} : TRUE

\* dp[i][j], prev[i][j] of boundary i from the row of boundary i - 1
sa_row_from(p, pm, cnt, i, prow, ys, yp) ==
    [j \in 1..Len(ys) |->
        CHOOSE c \in {sa_cell(p, pm, cnt, i, prow, ys, yp, j, ks) :
                        ks \in {sa_feas(p, pm, cnt, i, prow, ys, yp, j)}} : TRUE]

sa_next_row(p, pm, cnt, i, prow) ==
    sa_row_from(p, pm, cnt, i, prow, sa_cand_y(Len(p), cnt, i), sa_cand_y(Len(p), cnt, i - 1))

RECURSIVE sa_rows(_, _, _, _)
sa_rows(p, pm, cnt, i) ==
    IF i = 1 THEN <<sa_first_row(p, pm, cnt)>>
    ELSE CHOOSE rs \in {Append(r, sa_next_row(p, pm, cnt, i, r[i - 1])) :
                           r \in {sa_rows(p, pm, cnt, i - 1)}} : TRUE

\* chosen[i - 1] = prev[i][chosen[i]], from the last boundary down
RECURSIVE sa_chosen(_, _, _)
sa_chosen(rows, i, c) ==
    IF i = 1 THEN <<c>>
    ELSE Append(sa_chosen(rows, i - 1, PyAt(rows[i], c).k), c)

\* some candidate indexes proj past its end: proj[y] raises IndexError
sa_raises(p, cnt) ==
    \E i \in 1..(cnt - 1) :
        \E ys \in {sa_cand_y(Len(p), cnt, i)} :
            \E k \in 1..Len(ys) : ys[k] >= Len(p)

\* boundaries = [0] + [cand_y[i][chosen[i]]] + [n]
sa_pick(n, cnt, ch) ==
    <<0>> \o [i \in 1..(cnt - 1) |-> PyAt(sa_cand_y(n, cnt, i), ch[i])] \o <<n>>

sa_last_values(last) == [j \in 1..Len(last) |-> last[j].v]

sa_backtrack(n, cnt, rows) ==
    sa_pick(n, cnt, sa_chosen(rows, cnt - 1, FirstArgMin(sa_last_values(rows[cnt - 1]))))

sa_boundaries(p, cnt) ==
    IF cnt <= 1 THEN <<0, Len(p)>>
    ELSE CHOOSE b \in {sa_backtrack(Len(p), cnt, rows) :
                         rows \in {sa_rows(p, sa_proj_max(p), cnt, cnt - 1)}} : TRUE

\* the projection is evaluated once, then partitioned
split_axis(proj_in, cnt) ==
    CHOOSE b \in {sa_boundaries(p, cnt) : p \in {proj_in}} : TRUE

AxisInit ==
    /\ \E n \in 1..MaxLen, kind \in ProjKinds : proj = Projection(n, kind)
    /\ expected_count \in 1..MaxCount
    /\ boundaries = <<>>
    /\ ax_error = "none"
    /\ axpc = "call"

SplitAxis ==
    /\ axpc = "call"
    /\ IF sa_raises(proj, expected_count)
       THEN /\ ax_error' = "IndexError"
            /\ boundaries' = <<>>
       ELSE /\ ax_error' = "none"
            /\ boundaries' = split_axis(proj, expected_count)
    /\ axpc' = "split_axis"
    /\ UNCHANGED <<proj, expected_count>>

\* C1 (as stated): for every projection and every expected count N >= 1 the
\* partitioner returns N+1 boundaries, strictly increasing from 0 to the
\* length of the projection, with every gap at least min_cell.
C1_AxisBoundaries ==
    axpc = "split_axis" =>
        /\ ax_error = "none"
        /\ Len(boundaries) = expected_count + 1
        /\ boundaries[1] = 0
        /\ boundaries[Len(boundaries)] = Len(proj)
        /\ \A i \in 1..(Len(boundaries) - 1) :
              /\ boundaries[i] < boundaries[i + 1]
              /\ boundaries[i + 1] - boundaries[i]
                    >= sa_min_cell(Len(proj), expected_count)

\* -- fallback of the axis partitioner --
AllZero(p) == \A k \in 1..Len(p) : p[k] = 0

\* the first window computed for interior boundary i is empty (hi <= lo)
DegenerateWindow(n, cnt, i) ==
    Min2(n - (cnt - i) * sa_min_cell(n, cnt), sa_y_expect(n, cnt, i) + sa_win(n, cnt))
        <= Max2(sa_min_cell(n, cnt), sa_y_expect(n, cnt, i) - sa_win(n, cnt))

EvenlySpaced(n, cnt) == [k \in 1..(cnt + 1) |-> RoundHalfEven((k - 1) * n, cnt)]

\* C15: for a projection without ink, or one with a degenerate candidate
\* window, the partitioner returns the evenly spaced boundaries
\* round(i * L / N) and never raises, for every L >= 1 and N >= 1
C15_EvenFallback ==
    (/\ axpc = "split_axis"
     /\ \/ AllZero(proj)
        \/ \E i \in 1..(expected_count - 1) : DegenerateWindow(Len(proj), expected_count, i))
    => /\ ax_error = "none"
       /\ boundaries = EvenlySpaced(Len(proj), expected_count)

AlignIdle ==
    /\ text = <<>> /\ ids = <<>> /\ scores = <<>>
    /\ preds = NoPreds
    /\ pens = [skip_det |-> 120, skip_char |-> 100, match2 |-> 45]
    /\ dp = [i \in 0..0 |-> [j \in 0..0 |-> 0]]
    /\ prev = [i \in 0..0 |-> [j \in 0..0 |-> NoStep]]
    /\ ci = 0 /\ cj = 0 /\ bi = 0 /\ bj = 0 /\ best_j = 0
    /\ steps = <<>> /\ aligned = <<>>
    /\ ti = 0 /\ di = 0 /\ ek = 1 /\ cost = 0
    /\ apc = "done"

\* ------------------------------------------------------------------------
\* ContactAnalyzer and CropRefiner
\* ------------------------------------------------------------------------
PageW == 24
PageH == 30
step_x == 8
step_y == 14

Box(x0, y0, x1, y1) == [x0 |-> x0, y0 |-> y0, x1 |-> x1, y1 |-> y1]
ContactInk(t, l, r, tp, b) == [total |-> t, left |-> l, right |-> r, top |-> tp, bottom |-> b]

\* page_ink[y][x] for 0 <= x < w, 0 <= y < h
Ink(m, x, y) ==
    /\ 0 <= x /\ x < PageW /\ 0 <= y /\ y < PageH
    /\ \E r \in m : r.x0 <= x /\ x < r.x1 /\ r.y0 <= y /\ y < r.y1

\* length of the slice a[lo:hi] of an axis of length n (0 <= lo)
SliceLen(lo, hi, n) == Max2(0, Min2(hi, n) - Min2(lo, n))

\* Geometry of the outer region and of the box inside it (ring coordinates).
RingGeom(box, ring_px) ==
    LET r == Max2(1, ring_px)
        ex0 == Max2(0, box.x0 - r)
        ey0 == Max2(0, box.y0 - r)
        ex1 == Min2(PageW, box.x1 + r)
        ey1 == Min2(PageH, box.y1 + r)
        ww == ex1 - ex0
        hh == ey1 - ey0
    IN [ex0 |-> ex0, ey0 |-> ey0, ex1 |-> ex1, ey1 |-> ey1, ww |-> ww, hh |-> hh,
        ix0 |-> Min2(Max2(0, box.x0 - ex0), ww),
        iy0 |-> Min2(Max2(0, box.y0 - ey0), hh),
        ix1 |-> Min2(Max2(0, box.x1 - ex0), ww),
        iy1 |-> Min2(Max2(0, box.y1 - ey0), hh),
        iw |-> SliceLen(box.x0, box.x1, PageW),
        ih |-> SliceLen(box.y0, box.y1, PageH)]

\* inner[cy][cx]: the box's own ink, placed at (ix0, iy0) of the outer region
InnerInk(m, box, g, cx, cy) ==
    /\ g.ix0 <= cx /\ cx < g.ix0 + g.iw
    /\ g.iy0 <= cy /\ cy < g.iy0 + g.ih
    /\ Ink(m, box.x0 + (cx - g.ix0), box.y0 + (cy - g.iy0))

\* ring[cy][cx]: ink of the outer region with the box interior cleared
RingInk(m, g, cx, cy) ==
    /\ Ink(m, g.ex0 + cx, g.ey0 + cy)
    /\ ~(g.ix0 <= cx /\ cx < g.ix1 /\ g.iy0 <= cy /\ cy < g.iy1)

Dilated_FourNeighbours(m, box, g, cx, cy) ==
    \E d \in {<<0, 0>>, <<-1, 0>>, <<1, 0>>, <<0, -1>>, <<0, 1>>} :
        /\ 0 <= cx + d[1] /\ cx + d[1] < g.ww
        /\ 0 <= cy + d[2] /\ cy + d[2] < g.hh
        /\ InnerInk(m, box, g, cx + d[1], cy + d[2])

\* dil[cy][cx]: 3x3 dilation of inner, inside the outer region
Dilated(m, box, g, cx, cy) ==
    \E dx \in {-1, 0, 1}, dy \in {-1, 0, 1} :
        /\ 0 <= cx + dx /\ cx + dx < g.ww
        /\ 0 <= cy + dy /\ cy + dy < g.hh
        /\ InnerInk(m, box, g, cx + dx, cy + dy)

\* contact = ring & dil, as the set of its pixels (ring coordinates)
ContactPixels(m, box, g) ==
    {p \in (0..(g.ww - 1)) \X (0..(g.hh - 1)) :
        RingInk(m, g, p[1], p[2]) /\ Dilated(m, box, g, p[1], p[2])}

Clip(v, lo, hi) == Max2(lo, Min2(v, hi))

\* int(i0 + 0.2 * w) and int(i1 - 0.2 * w) for band_ratio = 0.6
BandLo(i0, w) == (5 * i0 + w) \div 5
BandHi(i1, w) == (5 * i1 - w) \div 5

contact_ring_ink_directional(m, box, ring_px) ==
    LET g == RingGeom(box, ring_px)
        contact == ContactPixels(m, box, g)
        inner_w == Max2(1, g.ix1 - g.ix0)
        inner_h == Max2(1, g.iy1 - g.iy0)
        band_x0 == Clip(BandLo(g.ix0, inner_w), 0, g.ww)
        band_x1 == Clip(BandHi(g.ix1, inner_w), 0, g.ww)
        band_y0 == Clip(BandLo(g.iy0, inner_h), 0, g.hh)
        band_y1 == Clip(BandHi(g.iy1, inner_h), 0, g.hh)
        InBandY(p) == band_y0 <= p[2] /\ p[2] < band_y1
        InBandX(p) == band_x0 <= p[1] /\ p[1] < band_x1
    IN IF g.ex1 <= g.ex0 + 1 \/ g.ey1 <= g.ey0 + 1 THEN ContactInk(0, 0, 0, 0, 0)
       ELSE IF contact = {} THEN ContactInk(0, 0, 0, 0, 0)
       ELSE ContactInk(
               Cardinality(contact),
               Cardinality({p \in contact : InBandY(p) /\ p[1] < g.ix0}),
               Cardinality({p \in contact : InBandY(p) /\ p[1] >= g.ix1}),
               Cardinality({p \in contact : InBandX(p) /\ p[2] < g.iy0}),
               Cardinality({p \in contact : InBandX(p) /\ p[2] >= g.iy1}))

\* -- expand_crop_box_by_contact --
\* initial clamp of the box to the corridor
ClampToSafe(box, sf) ==
    Box(Max2(sf.x0, box.x0), Max2(sf.y0, box.y0), Min2(sf.x1, box.x1), Min2(sf.y1, box.y1))

Degenerate(box) == box.x1 <= box.x0 + 1 \/ box.y1 <= box.y0 + 1

\* one pass of "for v, name in dirs" over the directions at or above trigger
ExpandLow_Inward(v, lo, step, c, trigger) ==
    IF c >= trigger /\ v > lo THEN Max2(lo, v + step) ELSE v

ExpandLow(v, lo, step, c, trigger) ==
    IF c >= trigger /\ v > lo THEN Max2(lo, v - step) ELSE v

ExpandHigh(v, hi, step, c, trigger) ==
    IF c >= trigger /\ v < hi THEN Min2(hi, v + step) ELSE v

ExpandBox(box, sf, c, trigger) ==
    Box(ExpandLow(box.x0, sf.x0, step_x, c.left, trigger),
        ExpandLow(box.y0, sf.y0, step_y, c.top, trigger),
        ExpandHigh(box.x1, sf.x1, step_x, c.right, trigger),
        ExpandHigh(box.y1, sf.y1, step_y, c.bottom, trigger))

\* "If nothing changes, stop.", evaluated on the box after the moves
NothingMore(box, sf, c, trigger) ==
    /\ (c.left < trigger \/ box.x0 = sf.x0)
    /\ (c.right < trigger \/ box.x1 = sf.x1)
    /\ (c.top < trigger \/ box.y0 = sf.y0)
    /\ (c.bottom < trigger \/ box.y1 = sf.y1)

MaxDir(c) == Max2(Max2(c.left, c.right), Max2(c.top, c.bottom))

Contact == contact_ring_ink_directional(page_ink, crop_box, rparams.ring_px)

RefineIdle ==
    /\ page_ink = {}
    /\ crop_box = Box(0, 0, 1, 1)
    /\ safe = Box(0, 0, 1, 1)
    /\ rparams = [ring_px |-> 8, accept |-> 15, trigger |-> 12, max_iter |-> 6]
    /\ iter = 0
    /\ last_contact = ContactInk(0, 0, 0, 0, 0)
    /\ rpc = "done"

\* Ink masks: blank page; a lone glyph; a glyph whose tail runs out to the
\* right; a glyph with a thin stroke leading into a wide blob below; a glyph
\* with a neighbour above.
InkMasks ==
    { {},
      {Box(8, 10, 16, 20)},
      {Box(6, 8, 14, 22), Box(14, 9, 23, 21)},
      {Box(8, 4, 14, 10), Box(10, 10, 13, 16), Box(3, 16, 21, 28)},
      {Box(7, 12, 17, 24), Box(9, 0, 15, 12)} }

InitialBoxes ==
    { Box(8, 10, 16, 20), Box(6, 8, 14, 22), Box(8, 4, 14, 12),
      Box(7, 12, 17, 24), Box(20, 2, 24, 9), Box(10, 12, 11, 20) }

Corridors ==
    { Box(0, 0, PageW, PageH), Box(4, 2, 18, PageH - 2), Box(2, 6, PageW - 2, 26) }

RefineParams ==
    { [ring_px |-> 8, accept |-> 15, trigger |-> 12, max_iter |-> 6],
      [ring_px |-> 8, accept |-> 2, trigger |-> 3, max_iter |-> 6],
      [ring_px |-> 1, accept |-> 2, trigger |-> 3, max_iter |-> 1],
      [ring_px |-> 0, accept |-> 4, trigger |-> 12, max_iter |-> 2] }

RefineInit ==
    /\ page_ink \in InkMasks
    /\ crop_box \in InitialBoxes
    /\ safe \in Corridors
    /\ rparams \in RefineParams
    /\ iter = 0
    /\ last_contact = ContactInk(0, 0, 0, 0, 0)
    /\ rpc = "call"

\* lines 107-113: clamp, and return at once when the box is degenerate
RefineClamp ==
    /\ rpc = "call"
    /\ crop_box' = ClampToSafe(crop_box, safe)
    /\ rpc' = IF Degenerate(ClampToSafe(crop_box, safe)) THEN "done" ELSE "loop"
    /\ UNCHANGED <<page_ink, safe, rparams, iter, last_contact>>

\* c.total <= accept: break
RefineAccept ==
    /\ rpc = "loop" /\ iter < rparams.max_iter
    /\ Contact.total <= rparams.accept
    /\ last_contact' = Contact
    /\ iter' = iter + 1
    /\ rpc' = "done"
    /\ UNCHANGED <<page_ink, crop_box, safe, rparams>>

\* max_v < trigger: break
RefineBelowTrigger ==
    /\ rpc = "loop" /\ iter < rparams.max_iter
    /\ Contact.total > rparams.accept
    /\ MaxDir(Contact) < rparams.trigger
    /\ last_contact' = Contact
    /\ iter' = iter + 1
    /\ rpc' = "done"
    /\ UNCHANGED <<page_ink, crop_box, safe, rparams>>

\* expand the directions at or above trigger, then the "nothing changes" test
RefineExpand ==
    /\ rpc = "loop" /\ iter < rparams.max_iter
    /\ Contact.total > rparams.accept
    /\ MaxDir(Contact) >= rparams.trigger
    /\ crop_box' = ExpandBox(crop_box, safe, Contact, rparams.trigger)
    /\ last_contact' = Contact
    /\ iter' = iter + 1
    /\ rpc' = IF NothingMore(ExpandBox(crop_box, safe, Contact, rparams.trigger),
                             safe, Contact, rparams.trigger)
              THEN "done" ELSE "loop"
    /\ UNCHANGED <<page_ink, safe, rparams>>

\* range(max_iter) is used up
RefineExhausted ==
    /\ rpc = "loop" /\ iter >= rparams.max_iter
    /\ rpc' = "done"
    /\ UNCHANGED <<page_ink, crop_box, safe, rparams, iter, last_contact>>

RefineStep ==
    RefineClamp \/ RefineAccept \/ RefineBelowTrigger \/ RefineExpand \/ RefineExhausted

BoxInside(box, sf) ==
    /\ sf.x0 <= box.x0 /\ box.x0 < box.x1 /\ box.x1 <= sf.x1
    /\ sf.y0 <= box.y0 /\ box.y0 < box.y1 /\ box.y1 <= sf.y1

\* C2 (as stated): after the initial clamp and after every expansion
\* iteration the current box lies inside the corridor, with x0 < x1 and
\* y0 < y1, for every ink mask, initial box and corridor.
C2_BoxInsideCorridor ==
    (rpc \in {"loop", "done"}) => BoxInside(crop_box, safe)

\* C6 (as stated): the total contact measured by an iteration is never
\* larger than the total contact measured by the iteration before it.
C6_ContactNonIncreasing ==
    [][(iter >= 1 /\ iter' = iter + 1) =>
          last_contact'.total <= last_contact.total]_vars

\* C6 (amended): an iteration never shrinks the box, and it moves an edge only
\* when the contact it measured is above accept with some direction at or
\* above trigger; the total contact itself may grow.
C6_ExpandOnlyOutward ==
    [][(rpc = "loop" /\ iter' = iter + 1) =>
          /\ crop_box'.x0 <= crop_box.x0 /\ crop_box'.y0 <= crop_box.y0
          /\ crop_box'.x1 >= crop_box.x1 /\ crop_box'.y1 >= crop_box.y1
          /\ (crop_box' # crop_box =>
                /\ last_contact'.total > rparams.accept
                /\ MaxDir(last_contact') >= rparams.trigger)]_vars

C6_Witness ==
    /\ rpc = "loop" /\ iter >= 2
    /\ last_contact.total > rparams.accept

\* ------------------------------------------------------------------------
\* Dataset index: page layout, cell boxes, safe corridors, crop overrides
\* ------------------------------------------------------------------------
MaxCols == 4
MaxRows == 3

\* number of inked pixels of column x (row y) between lo and hi - 1
RECURSIVE InkInColumn(_, _, _, _)
InkInColumn(m, x, lo, hi) ==
    IF hi <= lo THEN 0
    ELSE InkInColumn(m, x, lo, hi - 1) + (IF Ink(m, x, hi - 1) THEN 1 ELSE 0)

RECURSIVE InkInRow(_, _, _, _)
InkInRow(m, y, lo, hi) ==
    IF hi <= lo THEN 0
    ELSE InkInRow(m, y, lo, hi - 1) + (IF Ink(m, hi - 1, y) THEN 1 ELSE 0)

\* ink[r0:r1, :].sum(axis=0), as a sequence over x = 0 .. n - 1
RECURSIVE RegionColSums(_, _, _, _)
RegionColSums(m, r0, r1, n) ==
    IF n = 0 THEN <<>>
    ELSE Append(RegionColSums(m, r0, r1, n - 1),
                InkInColumn(m, n - 1, r0, Min2(r1, PageH)))

\* ink[:, c0:c1].sum(axis=1), as a sequence over y = 0 .. n - 1
RECURSIVE RegionRowSums(_, _, _, _)
RegionRowSums(m, c0, c1, n) ==
    IF n = 0 THEN <<>>
    ELSE Append(RegionRowSums(m, c0, c1, n - 1),
                InkInRow(m, n - 1, c0, Min2(c1, PageW)))

\* proj_x = ink.sum(axis=0), proj_y = ink.sum(axis=1)
ColSums(m) == RegionColSums(m, 0, PageH, PageW)
RowSums(m) == RegionRowSums(m, 0, PageW, PageH)

NoLayout == [kind |-> "none", primary |-> <<>>, secondary |-> <<>>]

\* primary axis: columns for vertical_rtl (col_bounds, row_bounds_by_col),
\* rows for horizontal_ltr (row_bounds, col_bounds_by_row)
PrimaryCount(dir, cols, rows) == IF dir = "vertical_rtl" THEN cols ELSE rows
SecondaryCount(dir, cols, rows) == IF dir = "vertical_rtl" THEN rows ELSE cols

\* the cached layout is taken when its outer shape matches
CachedAccepted(lay, dir, cols, rows) ==
    /\ lay.kind = dir
    /\ Len(lay.primary) = PrimaryCount(dir, cols, rows) + 1
    /\ Len(lay.secondary) = PrimaryCount(dir, cols, rows)

\* split_axis raises for a projection that is too short; a secondary
\* projection is as long as the page is high (wide), whatever its region
ComputeRaises(m, dir, cols, rows) ==
    IF dir = "vertical_rtl"
    THEN sa_raises(ColSums(m), cols) \/ sa_raises(RegionRowSums(m, 0, 0, PageH), rows)
    ELSE sa_raises(RowSums(m), rows) \/ sa_raises(RegionColSums(m, 0, 0, PageW), cols)

\* y_bounds_by_col / x_bounds_by_row: one split_axis per primary cell 1 .. k
RECURSIVE SecondaryBounds(_, _, _, _, _)
SecondaryBounds(m, dir, pb, cnt, k) ==
    IF k = 0 THEN <<>>
    ELSE Append(SecondaryBounds(m, dir, pb, cnt, k - 1),
                IF dir = "vertical_rtl"
                THEN split_axis(RegionRowSums(m, pb[k], pb[k + 1], PageH), cnt)
                ELSE split_axis(RegionColSums(m, pb[k], pb[k + 1], PageW), cnt))

ComputeLayout(m, dir, cols, rows) ==
    CHOOSE lay \in
        { [kind |-> dir, primary |-> pb,
           secondary |-> SecondaryBounds(m, dir, pb, SecondaryCount(dir, cols, rows),
                                         PrimaryCount(dir, cols, rows))] :
          pb \in {IF dir = "vertical_rtl" THEN split_axis(ColSums(m), cols)
                  ELSE split_axis(RowSums(m), rows)} } : TRUE

\* the columns of a vertical_rtl page taken left to right
CellAt_LeftToRight(k, dir, cols, rows) ==
    LET line == (k - 1) \div rows
        pos == (k - 1) % rows
    IN [ci |-> line, ri |-> pos, col |-> line, row |-> pos]

\* emission order: for ci, col in enumerate(col_order): for ri, row in ...
CellAt(k, dir, cols, rows) ==
    LET line == (k - 1) \div rows
        pos == (k - 1) % rows
    IN [ci |-> line, ri |-> pos,
        col |-> IF dir = "vertical_rtl" THEN cols - 1 - line ELSE line,
        row |-> pos]

\* cell_box of (col, row), with x1 = max(x1, x0 + 1), y1 = max(y1, y0 + 1)
CellBox(lay, dir, col, row) ==
    LET x0 == IF dir = "vertical_rtl" THEN lay.primary[col + 1]
              ELSE lay.secondary[row + 1][col + 1]
        x1 == IF dir = "vertical_rtl" THEN lay.primary[col + 2]
              ELSE lay.secondary[row + 1][col + 2]
        y0 == IF dir = "vertical_rtl" THEN lay.secondary[col + 1][row + 1]
              ELSE lay.primary[row + 1]
        y1 == IF dir = "vertical_rtl" THEN lay.secondary[col + 1][row + 2]
              ELSE lay.primary[row + 2]
    IN Box(x0, y0, Max2(x1, x0 + 1), Max2(y1, y0 + 1))

\* bbox returned by trim_glyph for a crop of size cw x ch: None when the crop
\* holds no ink, else a box clamped to the crop.  Which box depends on the
\* connected components of the crop; the outcomes kept here are the crop
\* itself and a box strictly inside it.
TrimModes == {"empty", "full", "inner"}

TrimBBox(mode, cw, ch) ==
    IF mode = "full" THEN Box(0, 0, cw, ch)
    ELSE Box(cw \div 4, ch \div 4, cw - (cw \div 4), ch - (ch \div 4))

CropBoxOf(mode, cell) ==
    LET bb == TrimBBox(mode, cell.x1 - cell.x0, cell.y1 - cell.y0)
    IN IF mode = "empty" THEN cell
       ELSE Box(cell.x0 + bb.x0, cell.y0 + bb.y0, cell.x0 + bb.x1, cell.y0 + bb.y1)

\* left_mid / top_mid and right_mid / bottom_mid of cell k (0-based) of cnt
LowMid(bounds, k) ==
    IF k = 0 THEN 0 ELSE RoundHalfEven(bounds[k] + bounds[k + 1], 2)
HighMid(bounds, k, cnt, extent) ==
    IF k = cnt - 1 THEN extent ELSE RoundHalfEven(bounds[k + 2] + bounds[k + 3], 2)

SafeRowBox(lay, dir, cols, rows, col, row) ==
    LET xb == IF dir = "vertical_rtl" THEN lay.primary ELSE lay.secondary[row + 1]
        yb == IF dir = "vertical_rtl" THEN lay.secondary[col + 1] ELSE lay.primary
    IN Box(LowMid(xb, col), LowMid(yb, row),
           HighMid(xb, col, cols, PageW), HighMid(yb, row, rows, PageH))

SafeColumnBox(lay, dir, cols, rows, col, row) ==
    LET sr == SafeRowBox(lay, dir, cols, rows, col, row)
    IN Box(sr.x0, 0, sr.x1, PageH)

IndexEntry(lay, dir, cols, rows, mode, k) ==
    LET c == CellAt(k, dir, cols, rows)
        cell == CellBox(lay, dir, c.col, c.row)
    IN [index |-> k, col |-> c.col, row |-> c.row,
        line_index |-> c.ci, pos_in_line |-> c.ri,
        cell_box |-> cell,
        crop_box |-> CropBoxOf(mode, cell),
        safe_column_box |-> SafeColumnBox(lay, dir, cols, rows, c.col, c.row),
        safe_row_box |-> SafeRowBox(lay, dir, cols, rows, c.col, c.row)]

\* a secondary list of the cached layout is shorter than the grid needs
LayoutIndexError(lay, dir, cols, rows) ==
    \E p \in 1..Len(lay.secondary) :
        Len(lay.secondary[p]) < SecondaryCount(dir, cols, rows) + 1

\* Cached layouts found in pages.json: none; saved previews of a 2 x 2 page in
\* either direction; a layout stored through update_pages, which keeps the
\* client's dict as it comes (a short inner list); the preview of a four
\* column page, whose col_bounds are what split_axis returns for 24 pixels.
LayoutOptions ==
    { NoLayout,
      [kind |-> "vertical_rtl", primary |-> <<0, 12, 24>>,
       secondary |-> << <<0, 15, 30>>, <<0, 14, 30>> >>],
      [kind |-> "horizontal_ltr", primary |-> <<0, 15, 30>>,
       secondary |-> << <<0, 12, 24>>, <<0, 10, 24>> >>],
      [kind |-> "vertical_rtl", primary |-> <<0, 20, 24>>,
       secondary |-> << <<0, 15, 30>>, <<0, 30>> >>],
      [kind |-> "vertical_rtl", primary |-> <<0, 12, 12, 12, 24>>,
       secondary |-> << <<0, 15, 30>>, <<0, 15, 30>>, <<0, 15, 30>>, <<0, 15, 30>> >>] }

\* page images of the index model: blank, two glyphs
IndexInks ==
    { {}, {Box(7, 12, 17, 24), Box(9, 0, 15, 12)} }

\* --only-files: not given, or the set of the files named
NoOnly == [given |-> FALSE, files |-> {}]

OnlyOptions == {NoOnly, [given |-> TRUE, files |-> {1, 3}]}

IndexIdle ==
    /\ img_ink = {}
    /\ page_direction = "vertical_rtl"
    /\ page_cols = 1 /\ page_rows = 1
    /\ page_layout = NoLayout
    /\ index_entries = <<>>
    /\ build_error = "none"
    /\ ipc = "idle"
    /\ crop_overrides = <<>>
    /\ only_files = NoOnly

IndexInit ==
    /\ img_ink \in IndexInks
    /\ page_direction \in {"vertical_rtl", "horizontal_ltr"}
    /\ page_cols \in 1..MaxCols
    /\ page_rows \in 1..MaxRows
    /\ page_layout \in LayoutOptions
    /\ index_entries = <<>>
    /\ build_error = "none"
    /\ ipc = "new"
    /\ crop_overrides = <<>>
    /\ only_files = NoOnly

\* workbench_build_dataset.main for one page
BuildDataset ==
    /\ ipc \in {"new", "built", "overridden"}
    /\ LET cached == CachedAccepted(page_layout, page_direction, page_cols, page_rows)
           raises == IF cached
                     THEN LayoutIndexError(page_layout, page_direction, page_cols, page_rows)
                     ELSE ComputeRaises(img_ink, page_direction, page_cols, page_rows)
       IN IF raises
          THEN /\ build_error' = "IndexError"
               /\ UNCHANGED index_entries
          ELSE /\ build_error' = "none"
               /\ \E lay \in {IF cached THEN page_layout
                              ELSE ComputeLayout(img_ink, page_direction, page_cols, page_rows)} :
                  \E mode \in TrimModes :
                     index_entries' =
                        [k \in 1..(page_cols * page_rows) |->
                            IndexEntry(lay, page_direction, page_cols, page_rows, mode, k)]
    /\ ipc' = "built"
    /\ UNCHANGED <<img_ink, page_direction, page_cols, page_rows, page_layout,
                   crop_overrides, only_files>>

\* -- apply_crop_overrides.main --
\* int(round(float(v))) of an override coordinate given in half pixels
OverrideCoord(v2) == RoundHalfEven(v2, 2)

ClampToPage(b) ==
    LET x0 == Max2(0, Min2(OverrideCoord(b[1]), PageW - 1))
        x1 == Max2(x0 + 1, Min2(OverrideCoord(b[3]), PageW))
        y0 == Max2(0, Min2(OverrideCoord(b[2]), PageH - 1))
        y1 == Max2(y0 + 1, Min2(OverrideCoord(b[4]), PageH))
    IN Box(x0, y0, x1, y1)

\* crop_overrides of an overrides file: entry index -> crop_box in half
\* pixels (<<>> stands for a crop_box that is not a list of four numbers)
OverrideFiles ==
    { (1 :> <<4, 6, 30, 40>>),
      (1 :> <<-6, 0, 48, 61>>) @@ (2 :> <<9, 11, 25, 33>>) @@ (99 :> <<0, 0, 8, 8>>),
      (2 :> <<>>) @@ (1 :> <<20, 20, 21, 21>>) }

ValidOverride(b) == Len(b) = 4

OverrideApplies_IgnoreOnly(ov, only, k) ==
    k \in DOMAIN ov /\ ValidOverride(ov[k])

\* the loop body reaches entry k: its file is in --only-files when given, is
\* named in the overrides and carries a list of four numbers
OverrideApplies(ov, only, k) ==
    /\ only.given => k \in only.files
    /\ k \in DOMAIN ov /\ ValidOverride(ov[k])

ApplyOverrides ==
    /\ ipc \in {"built", "overridden"}
    /\ index_entries # <<>>
    /\ \E ov \in OverrideFiles : \E only \in OnlyOptions :
         /\ index_entries' =
               [k \in 1..Len(index_entries) |->
                   IF OverrideApplies(ov, only, k)
                   THEN [index_entries[k] EXCEPT !.crop_box = ClampToPage(ov[k])]
                   ELSE index_entries[k]]
         /\ crop_overrides' = ov
         /\ only_files' = only
    /\ ipc' = "overridden"
    /\ UNCHANGED <<img_ink, page_direction, page_cols, page_rows, page_layout, build_error>>

IndexStep == BuildDataset \/ ApplyOverrides

BoxWithin(a, b) ==
    /\ b.x0 <= a.x0 /\ a.x1 <= b.x1
    /\ b.y0 <= a.y0 /\ a.y1 <= b.y1

\* C3 (as stated): after any builds and override applications every entry's
\* crop_box is contained in the entry's safe_row_box.
C3_CropInsideCorridor ==
    \A k \in 1..Len(index_entries) :
        BoxWithin(index_entries[k].crop_box, index_entries[k].safe_row_box)

\* C4 (as stated): the corridors of two cells that are neighbours along an
\* axis meet at one shared coordinate: the far edge of the first equals the
\* near edge of the second.
C4_CorridorsMeet ==
    \A k1, k2 \in 1..Len(index_entries) :
        LET a == index_entries[k1]
            b == index_entries[k2]
        IN /\ (a.col = b.col /\ b.row = a.row + 1) => a.safe_row_box.y1 = b.safe_row_box.y0
           /\ (a.row = b.row /\ b.col = a.col + 1) => a.safe_row_box.x1 = b.safe_row_box.x0

\* C5 (as stated): for a computed and for a cached layout, every emitted
\* cell_box is contained in the emitted safe corridor of its cell.
C5_CellInsideCorridor ==
    \A k \in 1..Len(index_entries) :
        BoxWithin(index_entries[k].cell_box, index_entries[k].safe_row_box)

\* C25: applying crop overrides changes only the crop_box of the entries
\* whose file is named in the overrides with a box of four numbers and is in
\* --only-files when given; the number and order of the entries, every other
\* entry and every other field of the overridden entries stay as they were.
C25_OnlyCropBoxChanges ==
    [][(ipc' = "overridden") =>
          /\ Len(index_entries') = Len(index_entries)
          /\ \A k \in 1..Len(index_entries) :
                /\ index_entries'[k] =
                      [index_entries[k] EXCEPT !.crop_box = index_entries'[k].crop_box]
                /\ (index_entries'[k] # index_entries[k]) =>
                      /\ k \in DOMAIN crop_overrides' /\ ValidOverride(crop_overrides'[k])
                      /\ only_files'.given => k \in only_files'.files]_vars

\* an override run limited by --only-files: one named entry took its box,
\* another entry named with a valid box was left out
C25_Witness ==
    /\ ipc = "overridden"
    /\ only_files.given
    /\ \E k \in 1..Len(index_entries) :
          /\ k \in only_files.files /\ k \in DOMAIN crop_overrides
          /\ ValidOverride(crop_overrides[k])
          /\ index_entries[k].crop_box = ClampToPage(crop_overrides[k])
          /\ ~BoxWithin(index_entries[k].crop_box, index_entries[k].cell_box)
    /\ \E k \in 1..Len(index_entries) :
          /\ k \notin only_files.files /\ k \in DOMAIN crop_overrides
          /\ ValidOverride(crop_overrides[k])
          /\ BoxWithin(index_entries[k].crop_box, index_entries[k].cell_box)

\* -- cached layouts --
\* the cached layout has the shape of the expected grid, inner lists included
FullShape(lay, dir, cols, rows) ==
    /\ lay.kind = dir
    /\ Len(lay.primary) = PrimaryCount(dir, cols, rows) + 1
    /\ Len(lay.secondary) = PrimaryCount(dir, cols, rows)
    /\ \A i \in 1..Len(lay.secondary) :
          Len(lay.secondary[i]) = SecondaryCount(dir, cols, rows) + 1

\* C16: a cached layout is used only if it has cols+1 primary boundaries and
\* rows+1 secondary boundaries for every primary cell (roles swapped for
\* horizontal_ltr); any other cached layout is discarded, the layout is
\* recomputed, and the build does not abort
C16_CachedShape ==
    (ipc = "built" /\ page_layout # NoLayout) =>
        /\ build_error = "none"
        /\ \E lay \in {IF FullShape(page_layout, page_direction, page_cols, page_rows)
                       THEN page_layout
                       ELSE ComputeLayout(img_ink, page_direction, page_cols, page_rows)} :
              \A k \in 1..Len(index_entries) :
                 index_entries[k].cell_box =
                    CellBox(lay, page_direction, index_entries[k].col, index_entries[k].row)

\* ------------------------------------------------------------------------
\* Reading-order index: workbench_build_dataset.main over all pages
\* ------------------------------------------------------------------------
MaxPages == 2

TextChars == <<"a", "b", "c", "d", "e">>

\* a transcription of n characters
Transcription(n) == [i \in 1..n |-> TextChars[((i - 1) % Len(TextChars)) + 1]]

TextLens == {0, 3, 8, 30}

NoIndex == [total_chars |-> -1, files |-> <<>>]

\* ch = align_text[global_idx - 1] if global_idx - 1 < len(align_text) else "?"
LabelOf(txt, idx) == IF idx - 1 < Len(txt) THEN txt[idx] ELSE "?"

\* the entries one page appends, global_idx running on from start
PageEntries(p, pi, start, txt) ==
    [k \in 1..(p.cols * p.rows) |->
        [index |-> start + k,
         char |-> LabelOf(txt, start + k),
         image_index |-> pi,
         col |-> CellAt(k, p.direction, p.cols, p.rows).col,
         row |-> CellAt(k, p.direction, p.cols, p.rows).row,
         line_index |-> CellAt(k, p.direction, p.cols, p.rows).ci,
         pos_in_line |-> CellAt(k, p.direction, p.cols, p.rows).ri]]

PageSpecs ==
    [direction : {"vertical_rtl", "horizontal_ltr"}, cols : 1..MaxCols, rows : 1..MaxRows]

RECURSIVE PageLists(_)
PageLists(n) ==
    IF n = 0 THEN {<<>>}
    ELSE {Append(ps, p) : ps \in PageLists(n - 1), p \in PageSpecs}

OrderIdle ==
    /\ pages = <<>>
    /\ align_text = <<>>
    /\ page_i = 0
    /\ global_idx = 0
    /\ all_entries = <<>>
    /\ index_json = NoIndex
    /\ opc = "idle"

OrderInit ==
    /\ pages \in UNION {PageLists(n) : n \in 1..MaxPages}
    /\ align_text \in {Transcription(n) : n \in TextLens}
    /\ page_i = 0
    /\ global_idx = 0
    /\ all_entries = <<>>
    /\ index_json = NoIndex
    /\ opc = "pages"

\* one pass of the page loop: layout of a blank page, then every cell
BuildPage ==
    /\ opc = "pages"
    /\ page_i < Len(pages)
    /\ LET p == pages[page_i + 1]
       IN IF ComputeRaises({}, p.direction, p.cols, p.rows)
          THEN /\ opc' = "failed"
               /\ UNCHANGED <<page_i, global_idx, all_entries>>
          ELSE /\ opc' = "pages"
               /\ page_i' = page_i + 1
               /\ global_idx' = global_idx + p.cols * p.rows
               /\ all_entries' = all_entries \o PageEntries(p, page_i + 1, global_idx, align_text)
    /\ UNCHANGED <<pages, align_text, index_json>>

\* index.json is written after the last page
WriteIndex ==
    /\ opc = "pages"
    /\ page_i = Len(pages)
    /\ index_json' = [total_chars |-> Len(all_entries), files |-> all_entries]
    /\ opc' = "written"
    /\ UNCHANGED <<pages, align_text, page_i, global_idx, all_entries>>

OrderStep == BuildPage \/ WriteIndex

\* -- reading order of a vertical_rtl build --
AllVertical == \A i \in 1..Len(pages) : pages[i].direction = "vertical_rtl"

RECURSIVE CellsUpTo(_, _)
CellsUpTo(ps, n) == IF n = 0 THEN 0 ELSE CellsUpTo(ps, n - 1) + ps[n].cols * ps[n].rows

\* -- (line_index, pos_in_line) of a grid cell in each component --
\* ml_build_detection_sequence: the cell found for a detection's centre
detection_cell(dir, cols, col, row) ==
    IF dir = "vertical_rtl"
    THEN [line_index |-> cols - 1 - col, pos_in_line |-> row]
    ELSE [line_index |-> row, pos_in_line |-> col]

\* workbench_preview_page: the k-th cell of for col_i, col in enumerate(col_order):
\* for row_i, row in enumerate(row_order)
preview_cell(k, dir, cols, rows) ==
    LET col_i == (k - 1) \div rows
        row_i == (k - 1) % rows
        col == IF dir = "vertical_rtl" THEN cols - 1 - col_i ELSE col_i
        row == row_i
    IN [index_in_page |-> k, col |-> col, row |-> row,
        line_index |-> IF dir = "vertical_rtl" THEN col_i ELSE row,
        pos_in_line |-> IF dir = "vertical_rtl" THEN row_i ELSE col]

\* out_dets.sort(key=(page_index, line_index, pos_in_line)) on the detection
\* sequence's cell of each entry
DetectionKeyBefore(e1, e2) ==
    LET c1 == detection_cell(pages[e1.image_index].direction, pages[e1.image_index].cols,
                             e1.col, e1.row)
        c2 == detection_cell(pages[e2.image_index].direction, pages[e2.image_index].cols,
                             e2.col, e2.row)
    IN \/ e1.image_index < e2.image_index
       \/ /\ e1.image_index = e2.image_index
          /\ \/ c1.line_index < c2.line_index
             \/ (c1.line_index = c2.line_index /\ c1.pos_in_line < c2.pos_in_line)

\* C26: for both page directions the dataset builder, the page preview and
\* the detection sequence give a grid cell the same (line_index,
\* pos_in_line), and sorting the cells by (page, line_index, pos_in_line) is
\* the order in which the builder numbers glyphs and assigns characters.
C26_SameReadingOrder ==
    /\ \A k \in 1..Len(all_entries) :
          LET e == all_entries[k]
              p == pages[e.image_index]
              d == detection_cell(p.direction, p.cols, e.col, e.row)
              v == preview_cell(k - CellsUpTo(pages, e.image_index - 1),
                                p.direction, p.cols, p.rows)
          IN /\ v.col = e.col /\ v.row = e.row
             /\ e.line_index = d.line_index /\ e.pos_in_line = d.pos_in_line
             /\ v.line_index = d.line_index /\ v.pos_in_line = d.pos_in_line
    /\ \A k1, k2 \in 1..Len(all_entries) :
          (all_entries[k1].index < all_entries[k2].index)
              <=> DetectionKeyBefore(all_entries[k1], all_entries[k2])

\* page order, then columns right-to-left, then rows top-to-bottom
ReadsBefore(e1, e2) ==
    \/ e1.image_index < e2.image_index
    \/ /\ e1.image_index = e2.image_index
       /\ \/ e1.col > e2.col
          \/ (e1.col = e2.col /\ e1.row < e2.row)

EntriesOfPage(files, pi) == {k \in 1..Len(files) : files[k].image_index = pi}

MaxEntries == 3

OVERLAP_Y_THR == [num |-> 35, den |-> 100]
NEAR_DUP_SIM_THR == [num |-> 985, den |-> 1000]

\* glyph PNGs at feature size: 1 - gray/255 per pixel; <<>> is a missing file
MissingPng == <<>>
GlyphPngs == {<<0, 0, 0, 0>>, <<1, 0, 0, 1>>, <<1, 1, 0, 0>>}

\* y_overlap_ratio(a, b) as the exact fraction inter / min(da, db)
y_overlap_ratio_X(a, b) ==
    LET inter == Max2(0, Min2(a[3], b[3]) - Max2(a[1], b[1]))
    IN IF inter <= 0 THEN [num |-> 0, den |-> 1]
       ELSE [num |-> inter, den |-> Min2(Max2(1, a[3] - a[1]), Max2(1, b[3] - b[1]))]

y_overlap_ratio(a, b) ==
    LET inter == Max2(0, Min2(a[4], b[4]) - Max2(a[2], b[2]))
    IN IF inter <= 0 THEN [num |-> 0, den |-> 1]
       ELSE [num |-> inter, den |-> Min2(Max2(1, a[4] - a[2]), Max2(1, b[4] - b[2]))]

\* ov < thr over exact fractions
RatioBelow(ov, thr) == ov.num * thr.den < thr.num * ov.den

\* the report entry main builds for one index entry
ReportEntry(e) ==
    IF e.png = MissingPng
    THEN [index |-> e.index, char |-> e.char, file |-> e.file, has_source |-> FALSE,
          image |-> "", line_index |-> -1, pos_in_line |-> -1, crop_box |-> <<>>,
          flags |-> {"missing_output"}, score |-> 1000]
    ELSE [index |-> e.index, char |-> e.char, file |-> e.file, has_source |-> TRUE,
          image |-> e.image, line_index |-> e.line_index, pos_in_line |-> e.pos_in_line,
          crop_box |-> e.crop_box, flags |-> {}, score |-> 0]

\* by_col[(page, line_index)]: positions of the entries of one line, in list order
RECURSIVE LineMembers(_, _, _, _)
LineMembers(es, page, line, n) ==
    IF n = 0 THEN <<>>
    ELSE IF es[n].has_source /\ es[n].image = page /\ es[n].line_index = line
         THEN Append(LineMembers(es, page, line, n - 1), n)
         ELSE LineMembers(es, page, line, n - 1)

\* list.insert for a stable ascending sort on pos_in_line
RECURSIVE InsertByPos(_, _, _)
InsertByPos(es, sorted, x) ==
    IF sorted = <<>> THEN <<x>>
    ELSE IF es[sorted[Len(sorted)]].pos_in_line <= es[x].pos_in_line
         THEN Append(sorted, x)
         ELSE Append(InsertByPos(es, SubSeq(sorted, 1, Len(sorted) - 1), x), sorted[Len(sorted)])

RECURSIVE SortByPos(_, _, _)
SortByPos(es, lst, n) ==
    IF n = 0 THEN <<>> ELSE InsertByPos(es, SortByPos(es, lst, n - 1), lst[n])

LineKeys(es) ==
    {<<es[k].image, es[k].line_index>> : k \in {i \in 1..Len(es) : es[i].has_source}}

\* zip(lst_sorted, lst_sorted[1:]) over every line, kept when not ov < thr
OverlapPairs(es, thr) ==
    UNION { LET lst == LineMembers(es, key[1], key[2], Len(es))
                srt == SortByPos(es, lst, Len(lst))
            IN { <<srt[i], srt[i + 1]>> : i \in
                   { i \in 1..(Len(srt) - 1) :
                       ~RatioBelow(y_overlap_ratio(es[srt[i]].crop_box, es[srt[i + 1]].crop_box), thr) } }
          : key \in LineKeys(es) }

PairsWith(ps, k) == {pr \in ps : pr[1] = k \/ pr[2] = k}

add_overlap_adjacent_cell_flags(es, thr) ==
    LET ps == OverlapPairs(es, thr)
    IN [k \in 1..Len(es) |->
          IF PairsWith(ps, k) = {} THEN es[k]
          ELSE [es[k] EXCEPT !.flags = @ \cup {"overlap_adjacent_cells"},
                             !.score = @ + 12 * Cardinality(PairsWith(ps, k))]]

\* _feat_32x32 before the division by the norm, scaled by the pixel count:
\* a - mean(a) becomes Len(a) * a - sum(a)
Centered(a) == [i \in 1..Len(a) |-> Len(a) * a[i] - SeqSum(a)]

RECURSIVE Dot(_, _, _)
Dot(a, b, n) == IF n = 0 THEN 0 ELSE Dot(a, b, n - 1) + a[n] * b[n]

SqNorm(a) == Dot(Centered(a), Centered(a), Len(a))

\* sim[i, j] as d / sqrt(q): the diagonal is -1, a uniform image has the zero
\* feature (its norm is not above 1e-6) and similarity 0 to everything
Sim(pa, pb, same) ==
    IF same THEN [d |-> -1, q |-> 1]
    ELSE IF SqNorm(pa) = 0 \/ SqNorm(pb) = 0 THEN [d |-> 0, q |-> 1]
    ELSE [d |-> Dot(Centered(pa), Centered(pb), Len(pa)), q |-> SqNorm(pa) * SqNorm(pb)]

SimLess(s1, s2) ==
    IF s1.d < 0 /\ s2.d >= 0 THEN TRUE
    ELSE IF s1.d >= 0 /\ s2.d < 0 THEN FALSE
    ELSE IF s1.d >= 0 THEN s1.d * s1.d * s2.q < s2.d * s2.d * s1.q
    ELSE s1.d * s1.d * s2.q > s2.d * s2.d * s1.q

\* s < sim_thr
SimBelow(s1, thr) ==
    s1.d <= 0 \/ s1.d * s1.d * thr.den * thr.den < thr.num * thr.num * s1.q

\* items: entries with a file name whose PNG exists, in list order
RECURSIVE DupItems(_, _, _)
DupItems(es, png, n) ==
    IF n = 0 THEN <<>>
    ELSE IF png[es[n].file] # MissingPng THEN Append(DupItems(es, png, n - 1), n)
         ELSE DupItems(es, png, n - 1)

\* int(sim[i].argmax()): the first column holding the row maximum
SimArgMax(es, png, items, i) ==
    CHOOSE j \in 1..Len(items) :
        /\ \A k \in 1..Len(items) :
              ~SimLess(Sim(png[es[items[i]].file], png[es[items[j]].file], i = j),
                       Sim(png[es[items[i]].file], png[es[items[k]].file], i = k))
        /\ \A k \in 1..(j - 1) :
              SimLess(Sim(png[es[items[i]].file], png[es[items[k]].file], i = k),
                      Sim(png[es[items[i]].file], png[es[items[j]].file], i = j))

\* the pairs the row loop flags; the seen-set makes each pair count once
DupPairs(es, png, thr) ==
    LET items == DupItems(es, png, Len(es))
    IN IF Len(items) < 3 THEN {}
       ELSE { {items[i], items[SimArgMax(es, png, items, i)]} : i \in
                { i \in 1..Len(items) :
                    LET j == SimArgMax(es, png, items, i)
                    IN /\ ~SimBelow(Sim(png[es[items[i]].file], png[es[items[j]].file], i = j), thr)
                       /\ es[items[i]].char # ""
                       /\ es[items[j]].char # ""
                       /\ es[items[i]].char # es[items[j]].char } }

add_near_duplicate_mismatch_flags(es, png, thr) ==
    LET ps == DupPairs(es, png, thr)
    IN [k \in 1..Len(es) |->
          IF {pr \in ps : k \in pr} = {} THEN es[k]
          ELSE [es[k] EXCEPT !.flags = @ \cup {"near_duplicate_mismatch"},
                             !.score = @ + 10 * Cardinality({pr \in ps : k \in pr})]]

\* report_entries.sort(key=score, reverse=True): stable, descending
RECURSIVE InsertByScore(_, _)
InsertByScore(sorted, x) ==
    IF sorted = <<>> THEN <<x>>
    ELSE IF sorted[Len(sorted)].score >= x.score
         THEN Append(sorted, x)
         ELSE Append(InsertByScore(SubSeq(sorted, 1, Len(sorted) - 1), x), sorted[Len(sorted)])

RECURSIVE SortByScore(_, _)
SortByScore(es, n) ==
    IF n = 0 THEN <<>> ELSE InsertByScore(SortByScore(es, n - 1), es[n])

\* file name -> PNG content of the dataset directory
PngOf(files) == [f \in {files[k].file : k \in 1..Len(files)} |->
                    files[CHOOSE k \in 1..Len(files) : files[k].file = f].png]

\* line_index, pos_in_line and crop_box of the entries of a dataset
CropProfiles ==
    { << <<0, 0, <<0, 0, 10, 20>> >>, <<0, 1, <<0, 13, 10, 33>> >>,
         <<0, 2, <<0, 40, 10, 60>> >>, <<0, 3, <<0, 55, 10, 75>> >> >>,
      << <<0, 0, <<0, 0, 10, 20>> >>, <<0, 1, <<0, 14, 10, 34>> >>,
         <<0, 2, <<0, 30, 10, 50>> >>, <<1, 0, <<12, 0, 22, 20>> >> >>,
      << <<0, 0, <<0, 0, 10, 20>> >>, <<0, 1, <<0, 20, 10, 40>> >>,
         <<1, 0, <<12, 5, 22, 25>> >>, <<1, 1, <<12, 15, 22, 35>> >> >>,
      << <<0, 2, <<0, 40, 10, 60>> >>, <<0, 0, <<0, 0, 10, 20>> >>,
         <<0, 1, <<0, 8, 10, 28>> >>, <<0, 3, <<0, 60, 10, 80>> >> >>,
      << <<0, 0, <<0, 0, 10, 20>> >>, <<0, 1, <<0, 25, 10, 45>> >>,
         <<0, 2, <<0, 12, 10, 32>> >>, <<0, 3, <<0, 50, 10, 70>> >> >> }

QaDataset(n, prof, chars, pngs) ==
    [k \in 1..n |->
        [index |-> k, char |-> chars[k], file |-> k, png |-> pngs[k], image |-> "page_01",
         line_index |-> prof[k][1], pos_in_line |-> prof[k][2], crop_box |-> prof[k][3]]]

QaIdle ==
    /\ qa_files = <<>>
    /\ report_entries = <<>>
    /\ qpc = "idle"

QaInit ==
    /\ \E n \in 2..MaxEntries : \E prof \in CropProfiles :
       \E chars \in [1..n -> {"a", "b"}] : \E pngs \in [1..n -> GlyphPngs \cup {MissingPng}] :
          qa_files = QaDataset(n, prof, chars, pngs)
    /\ report_entries = <<>>
    /\ qpc = "index"

\* the per-entry loop of main
LoadEntries ==
    /\ qpc = "index"
    /\ report_entries' = [k \in 1..Len(qa_files) |-> ReportEntry(qa_files[k])]
    /\ qpc' = "loaded"
    /\ UNCHANGED qa_files

AddOverlapFlags ==
    /\ qpc = "loaded"
    /\ report_entries' = add_overlap_adjacent_cell_flags(report_entries, OVERLAP_Y_THR)
    /\ qpc' = "overlap"
    /\ UNCHANGED qa_files

AddNearDuplicateFlags ==
    /\ qpc = "overlap"
    /\ report_entries' =
          add_near_duplicate_mismatch_flags(report_entries, PngOf(qa_files), NEAR_DUP_SIM_THR)
    /\ qpc' = "dup"
    /\ UNCHANGED qa_files

WriteReport ==
    /\ qpc = "dup"
    /\ report_entries' = SortByScore(report_entries, Len(report_entries))
    /\ qpc' = "written"
    /\ UNCHANGED qa_files

QaStep == LoadEntries \/ AddOverlapFlags \/ AddNearDuplicateFlags \/ WriteReport

\* -- near-duplicate mismatch --
BitIdentical(i, j) ==
    /\ qa_files[i].png # MissingPng
    /\ qa_files[i].png = qa_files[j].png

ReportOf(f) == report_entries[CHOOSE k \in 1..Len(report_entries) : report_entries[k].file = f]

\* C12: two bit-identical glyph images whose labels differ are both flagged
\* near_duplicate_mismatch, whatever the size and order of the dataset and
\* whatever other glyphs it holds
C12_IdenticalFlagged ==
    qpc = "written" =>
        \A i, j \in 1..Len(qa_files) :
            (i # j /\ BitIdentical(i, j) /\ qa_files[i].char # qa_files[j].char) =>
                /\ "near_duplicate_mismatch" \in ReportOf(qa_files[i].file).flags
                /\ "near_duplicate_mismatch" \in ReportOf(qa_files[j].file).flags

\* -- overlap of adjacent cells --
\* b follows a in its line: same page and line, no reported cell in between
NextInLine(a, b) ==
    /\ a.has_source /\ b.has_source
    /\ a.image = b.image /\ a.line_index = b.line_index
    /\ a.pos_in_line < b.pos_in_line
    /\ \A k \in 1..Len(report_entries) :
          LET c == report_entries[k]
          IN ~(/\ c.has_source /\ c.image = a.image /\ c.line_index = a.line_index
               /\ a.pos_in_line < c.pos_in_line /\ c.pos_in_line < b.pos_in_line)

\* extent the two crop boxes share along the line, and the shorter of the two
SharedY(a, b) == Min2(a.crop_box[4], b.crop_box[4]) - Max2(a.crop_box[2], b.crop_box[2])
ShorterY(a, b) == Min2(a.crop_box[4] - a.crop_box[2], b.crop_box[4] - b.crop_box[2])

OverlapAbove(a, b) ==
    SharedY(a, b) > 0 /\ SharedY(a, b) * OVERLAP_Y_THR.den > OVERLAP_Y_THR.num * ShorterY(a, b)
OverlapAtLeast(a, b) ==
    SharedY(a, b) > 0 /\ SharedY(a, b) * OVERLAP_Y_THR.den >= OVERLAP_Y_THR.num * ShorterY(a, b)

\* C13 as stated: an entry is flagged overlap_adjacent_cells exactly when a
\* neighbour in its line overlaps it with a ratio above the threshold
C13_FlagIffAbove ==
    qpc = "written" =>
        \A k \in 1..Len(report_entries) :
            ("overlap_adjacent_cells" \in report_entries[k].flags)
            <=> \E n \in 1..Len(report_entries) :
                   /\ \/ NextInLine(report_entries[k], report_entries[n])
                      \/ NextInLine(report_entries[n], report_entries[k])
                   /\ OverlapAbove(report_entries[k], report_entries[n])

\* C13: an entry is flagged overlap_adjacent_cells exactly when a neighbour
\* in its line overlaps it along the line with a ratio at or above the
\* threshold, and then both entries of the pair are flagged
C13_FlagIffAtLeast ==
    qpc = "written" =>
        \A k \in 1..Len(report_entries) :
            ("overlap_adjacent_cells" \in report_entries[k].flags)
            <=> \E n \in 1..Len(report_entries) :
                   /\ \/ NextInLine(report_entries[k], report_entries[n])
                      \/ NextInLine(report_entries[n], report_entries[k])
                   /\ OverlapAtLeast(report_entries[k], report_entries[n])

\* a pair whose ratio equals the threshold is flagged, a third cell is not
C13_Witness ==
    /\ qpc = "written"
    /\ \E k, n, o \in 1..Len(report_entries) :
          /\ NextInLine(report_entries[k], report_entries[n])
          /\ OverlapAtLeast(report_entries[k], report_entries[n])
          /\ ~OverlapAbove(report_entries[k], report_entries[n])
          /\ "overlap_adjacent_cells" \in report_entries[k].flags
          /\ "overlap_adjacent_cells" \in report_entries[n].flags
          /\ report_entries[o].has_source
          /\ "overlap_adjacent_cells" \notin report_entries[o].flags

\* ------------------------------------------------------------------------
\* InkMask: ink_mask (extract_lantingjixu_chars.py, same body in qa_char_crops.py)
\* ------------------------------------------------------------------------
MaxPix == 2

\* gray = 0.299 r + 0.587 g + 0.114 b, in thousandths
Gray1000(px) == 299 * px[1] + 587 * px[2] + 114 * px[3]

\* redish = (r > 120) & ((r - g) > 40) & ((r - b) > 40); seal = redish & (gray > 82)
Redish(px) == px[1] > 120 /\ px[1] - px[2] > 40 /\ px[1] - px[3] > 40
Seal(px) == Redish(px) /\ Gray1000(px) > 82 * 1000

\* ink taken as gray >= threshold
ink_mask_Inverted(a, ink_threshold) ==
    [i \in 1..Len(a) |-> Gray1000(a[i]) >= ink_threshold * 1000 /\ ~Seal(a[i])]

\* ink = gray < float(ink_threshold); return ink & (~seal)
ink_mask(a, ink_threshold) ==
    [i \in 1..Len(a) |-> Gray1000(a[i]) < ink_threshold * 1000 /\ ~Seal(a[i])]

\* black ink, grays around the seal and ink thresholds, paper, seal red,
\* dark red (ink under a seal), pale red
PixelColors ==
    { <<0, 0, 0>>, <<82, 82, 82>>, <<83, 83, 83>>, <<119, 119, 119>>, <<120, 120, 120>>,
      <<235, 230, 215>>, <<200, 40, 40>>, <<130, 20, 20>>, <<255, 170, 170>> }

InkThresholds == {60, 83, 120, 170}

RECURSIVE PixelArrays(_)
PixelArrays(n) ==
    IF n = 0 THEN {<<>>}
    ELSE {Append(a, px) : a \in PixelArrays(n - 1), px \in PixelColors}

MaskIdle ==
    /\ arr = <<>>
    /\ thr_pair = [lo |-> 0, hi |-> 0]
    /\ mask_lo = <<>>
    /\ mask_hi = <<>>
    /\ mpc = {"idle"}

MaskInit ==
    /\ arr \in UNION {PixelArrays(n) : n \in 1..MaxPix}
    /\ thr_pair \in {tp \in [lo : InkThresholds, hi : InkThresholds] : tp.hi > tp.lo}
    /\ mask_lo = <<>>
    /\ mask_hi = <<>>
    /\ mpc = {}

MaskLow ==
    /\ "lo" \notin mpc /\ "idle" \notin mpc
    /\ mask_lo' = ink_mask(arr, thr_pair.lo)
    /\ mpc' = mpc \cup {"lo"}
    /\ UNCHANGED <<arr, thr_pair, mask_hi>>

MaskHigh ==
    /\ "hi" \notin mpc /\ "idle" \notin mpc
    /\ mask_hi' = ink_mask(arr, thr_pair.hi)
    /\ mpc' = mpc \cup {"hi"}
    /\ UNCHANGED <<arr, thr_pair, mask_lo>>

MaskStep == MaskLow \/ MaskHigh

\* C14: for every RGB array and thresholds t > t', every pixel set in
\* ink_mask(arr, t') is set in ink_mask(arr, t)
C14_MaskMonotone ==
    mpc = {"lo", "hi"} =>
        \A i \in 1..Len(arr) : mask_lo[i] => mask_hi[i]

\* the higher threshold adds a pixel and keeps one of the lower mask
C14_Witness ==
    /\ mpc = {"lo", "hi"}
    /\ \E i \in 1..Len(arr) : mask_hi[i] /\ ~mask_lo[i]
    /\ \E i \in 1..Len(arr) : mask_lo[i] /\ mask_hi[i]

\* ------------------------------------------------------------------------
\* Box clamping: clamp_box (ml_refine_crops_with_detector.py), the override
\* clamp (apply_crop_overrides.py) and the refiner's corridor clamp
\* ------------------------------------------------------------------------
\* clamp_box(box, w=w, h=h)
clamp_box(box, w, h) ==
    LET x0 == Max2(0, Min2(box.x0, w))
        x1 == Max2(0, Min2(box.x1, w))
        y0 == Max2(0, Min2(box.y0, h))
        y1 == Max2(0, Min2(box.y1, h))
    IN Box(x0, y0,
           IF x1 <= x0 THEN Min2(w, x0 + 1) ELSE x1,
           IF y1 <= y0 THEN Min2(h, y0 + 1) ELSE y1)

\* coordinates left of, on and right of the page (above, on and below)
ClampXs == {-5, 0, 10, PageW - 1, PageW, PageW + 6}
ClampYs == {-7, 0, 12, PageH - 1, PageH, PageH + 9}

\* well-formed boxes over these coordinates
ClampBoxes ==
    {b \in [x0 : ClampXs, y0 : ClampYs, x1 : ClampXs, y1 : ClampYs] :
        b.x0 < b.x1 /\ b.y0 < b.y1}

ClampIdle ==
    /\ cl_routine = "none"
    /\ cl_box = Box(0, 0, 1, 1)
    /\ cl_bounds = Box(0, 0, 1, 1)
    /\ cl_out = Box(0, 0, 1, 1)
    /\ cpc = "idle"

ClampInit ==
    /\ cl_routine \in {"clamp_box", "override", "refiner"}
    /\ cl_box \in ClampBoxes
    /\ cl_bounds \in IF cl_routine = "refiner" THEN Corridors ELSE {Box(0, 0, PageW, PageH)}
    /\ cl_out = cl_box
    /\ cpc = "call"

ClampDetectorBox ==
    /\ cpc = "call" /\ cl_routine = "clamp_box"
    /\ cl_out' = clamp_box(cl_box, cl_bounds.x1, cl_bounds.y1)
    /\ cpc' = "done"
    /\ UNCHANGED <<cl_routine, cl_box, cl_bounds>>

ClampOverride ==
    /\ cpc = "call" /\ cl_routine = "override"
    /\ cl_out' = ClampToPage(<<2 * cl_box.x0, 2 * cl_box.y0, 2 * cl_box.x1, 2 * cl_box.y1>>)
    /\ cpc' = "done"
    /\ UNCHANGED <<cl_routine, cl_box, cl_bounds>>

ClampRefiner ==
    /\ cpc = "call" /\ cl_routine = "refiner"
    /\ cl_out' = ClampToSafe(cl_box, cl_bounds)
    /\ cpc' = "done"
    /\ UNCHANGED <<cl_routine, cl_box, cl_bounds>>

ClampStep == ClampDetectorBox \/ ClampOverride \/ ClampRefiner

\* C17: every clamping step returns, for every input box, boxes wholly
\* outside the page or corridor included, a box at least one pixel wide and
\* high that lies within the bounds it clamps to
C17_ClampKeepsBox ==
    cpc = "done" =>
        /\ cl_out.x1 - cl_out.x0 >= 1
        /\ cl_out.y1 - cl_out.y0 >= 1
        /\ cl_bounds.x0 <= cl_out.x0 /\ cl_out.x1 <= cl_bounds.x1
        /\ cl_bounds.y0 <= cl_out.y0 /\ cl_out.y1 <= cl_bounds.y1

\* ------------------------------------------------------------------------
\* Column splitter: split_column_into_chars (extract_lantingjixu_chars.py)
\* ------------------------------------------------------------------------
MaxColH == 24
MaxChars == 25

\* width of the column in pixels (x1 - x0)
ColW == 3

ColKinds == 1..3

\* row sums of a column of height h: no ink; glyph rows between blank rows;
\* thin ink with solid occlusion rows
ColumnRows(h, kind) ==
    [k \in 1..h |->
        CASE kind = 1 -> 0
          [] kind = 2 -> IF (k - 1) % 7 \in {0, 1} THEN 0 ELSE 2
          [] OTHER    -> IF (k - 1) % 11 = 4 THEN ColW ELSE 1]

\* heavy = row_sum > col_w * 0.68; heavy rows are blanked
sc_row_sum(rows) == [k \in 1..Len(rows) |-> IF 100 * rows[k] > 68 * ColW THEN 0 ELSE rows[k]]

\* max(9, int(round(step * 0.18)) | 1)
sc_smooth_win(h, cnt) ==
    LET r == RoundHalfEven(9 * h, 50 * cnt)
    IN Max2(9, IF r % 2 = 1 THEN r ELSE r + 1)

\* one entry of np.convolve(x, ones(win) / win, mode="same"), times win
sc_window_sum(x, win, k) ==
    LET start == (Min2(Len(x), win) - 1) \div 2
        t == k + start
    IN SeqSum([i \in 1..Len(x) |-> IF t - (i - 1) >= 0 /\ t - (i - 1) <= win - 1 THEN x[i] ELSE 0])

RECURSIVE sc_smooth(_, _, _)
sc_smooth(x, win, n) ==
    IF n = 0 THEN <<>> ELSE Append(sc_smooth(x, win, n - 1), sc_window_sum(x, win, n - 1))

\* min_cell = max(18, int(round(step * max(0.22, min_cell_ratio)))), ratio 0.30
sc_min_cell(h, cnt) == Max2(18, RoundHalfEven(3 * h, 10 * cnt))
\* search_win = max(14, int(round(step * 0.60)))
sc_search_win(h, cnt) == Max2(14, RoundHalfEven(3 * h, 5 * cnt))
sc_y_expect(h, cnt, i) == RoundHalfEven(h * i, cnt)

\* everything the loops share: S is proj times win, M is proj_max times win
sc_context(rows, cnt) ==
    CHOOSE cx \in
        { [S |-> S, M |-> Max2(sc_smooth_win(Len(rows), cnt), SeqMax(S)),
           h |-> Len(rows), cnt |-> cnt,
           mc |-> sc_min_cell(Len(rows), cnt), sw |-> sc_search_win(Len(rows), cnt),
           sN |-> sa_sN(Len(rows), cnt), sD |-> sa_sD(Len(rows), cnt)] :
          S \in {sc_smooth(sc_row_sum(rows), sc_smooth_win(Len(rows), cnt),
                           Max2(Len(rows), sc_smooth_win(Len(rows), cnt)))} } : TRUE

\* candidate window [lo, hi) of interior boundary i
sc_window(cx, i) ==
    LET top == cx.h - (cx.cnt - i) * cx.mc
        ye == sc_y_expect(cx.h, cx.cnt, i)
        lo1 == Max2(cx.mc, ye - cx.sw)
        hi1 == Min2(top, ye + cx.sw)
        lo2 == IF hi1 <= lo1 + 2 THEN Max2(cx.mc, ye - 2) ELSE lo1
        hi2 == IF hi1 <= lo1 + 2 THEN Min2(top, ye + 2) ELSE hi1
        lo3 == Max2(cx.mc, Min2(ye, top - 1))
    IN IF hi2 <= lo2 THEN [lo |-> lo3, hi |-> lo3 + 1] ELSE [lo |-> lo2, hi |-> hi2]

sc_cand_y(cx, i) == CHOOSE ys \in {Range(w.lo, w.hi) : w \in {sc_window(cx, i)}} : TRUE

\* Costs are scaled by 100 * M * sD^2 so that they are integers:
\* proj[y] / proj_max + 0.45 * dev^2
sc_cand_cost(cx, i, y) ==
    LET d == (y - sc_y_expect(cx.h, cx.cnt, i)) * cx.sN
    IN 100 * cx.sD * cx.sD * cx.S[y + 1] + 45 * cx.M * d * d

\* 0.85 * (cell - 1)^2 with cell = (y - y_prev) / max(1, step)
sc_size_cost(cx, y, y_prev) ==
    LET c == (y - y_prev) * cx.sN - cx.sD
    IN 85 * cx.M * c * c

\* some candidate indexes proj past its end: proj[y] raises IndexError
sc_raises(cx) ==
    \E i \in 1..(cx.cnt - 1) : \E ys \in {sc_cand_y(cx, i)} :
        \E k \in 1..Len(ys) : ys[k] >= Len(cx.S)

sc_first_row(cx) ==
    LET ys == sc_cand_y(cx, 1)
    IN [j \in 1..Len(ys) |->
          [v |-> sc_cand_cost(cx, 1, ys[j]) + sc_size_cost(cx, ys[j], 0), k |-> -1]]

sc_val(cx, i, prow, ys, yp, j, k) ==
    prow[k].v + sc_cand_cost(cx, i, ys[j]) + sc_size_cost(cx, ys[j], yp[k])

sc_feas(cx, i, prow, ys, yp, j) ==
    {k \in 1..Len(yp) : ys[j] - yp[k] >= cx.mc /\ prow[k].v < INF}

sc_best_k(cx, i, prow, ys, yp, j, ks) ==
    CHOOSE k \in ks : \A k2 \in ks :
        \E v \in {sc_val(cx, i, prow, ys, yp, j, k)}, v2 \in {sc_val(cx, i, prow, ys, yp, j, k2)} :
            v < v2 \/ (v = v2 /\ k <= k2)

sc_cell(cx, i, prow, ys, yp, j, ks) ==
    IF ks = {} THEN [v |-> INF, k |-> -1]
    ELSE CHOOSE c \in {[v |-> sc_val(cx, i, prow, ys, yp, j, bk), k |-> bk - 1] :
                         bk \in {sc_best_k(cx, i, prow, ys, yp, j, ks)}} : TRUE

RECURSIVE sc_row_from(_, _, _, _, _, _)
sc_row_from(cx, i, prow, ys, yp, n) ==
    IF n = 0 THEN <<>>
    ELSE Append(sc_row_from(cx, i, prow, ys, yp, n - 1),
                sc_cell(cx, i, prow, ys, yp, n, sc_feas(cx, i, prow, ys, yp, n)))

sc_next_row(cx, i, prow) ==
    CHOOSE r \in {sc_row_from(cx, i, prow, ys, sc_cand_y(cx, i - 1), Len(ys)) :
                    ys \in {sc_cand_y(cx, i)}} : TRUE

RECURSIVE sc_rows(_, _)
sc_rows(cx, i) ==
    IF i = 1 THEN <<sc_first_row(cx)>>
    ELSE CHOOSE rs \in {Append(r, sc_next_row(cx, i, r[i - 1])) : r \in {sc_rows(cx, i - 1)}} : TRUE

\* a greedy pass whose degenerate branch ignores the expected position
sc_greedy_y_Bottom(cx, i, cur) ==
    LET ye == sc_y_expect(cx.h, cx.cnt, i)
        low == cur + cx.mc
        high == cx.h - (cx.cnt - i) * cx.mc
        a == Max2(low, ye - cx.sw)
        b == Min2(high, ye + cx.sw)
    IN IF high <= low THEN Max2(cur + 1, cx.h - 1)
       ELSE IF b <= a THEN Max2(low, Min2(ye, high))
       ELSE CHOOSE y \in a..(b - 1) :
               /\ \A y2 \in a..(b - 1) : sc_cand_cost(cx, i, y) <= sc_cand_cost(cx, i, y2)
               /\ \A y2 \in a..(y - 1) : sc_cand_cost(cx, i, y2) > sc_cand_cost(cx, i, y)

\* greedy fallback: boundary i after the previous boundary cur
sc_greedy_y(cx, i, cur) ==
    LET ye == sc_y_expect(cx.h, cx.cnt, i)
        low == cur + cx.mc
        high == cx.h - (cx.cnt - i) * cx.mc
        a == Max2(low, ye - cx.sw)
        b == Min2(high, ye + cx.sw)
    IN IF high <= low THEN Max2(cur + 1, Min2(ye, cx.h - 1))
       ELSE IF b <= a THEN Max2(low, Min2(ye, high))
       ELSE CHOOSE y \in a..(b - 1) :
               /\ \A y2 \in a..(b - 1) : sc_cand_cost(cx, i, y) <= sc_cand_cost(cx, i, y2)
               /\ \A y2 \in a..(y - 1) : sc_cand_cost(cx, i, y2) > sc_cand_cost(cx, i, y)

RECURSIVE sc_greedy(_, _, _)
sc_greedy(cx, i, bs) ==
    IF i > cx.cnt - 1 THEN bs
    ELSE sc_greedy(cx, i + 1, Append(bs, sc_greedy_y(cx, i, bs[Len(bs)])))

\* boundaries of the backtracked DP path, with the guard for j < 0
RECURSIVE sc_trace(_, _, _, _)
sc_trace(cx, ch, i, bs) ==
    IF i > Len(ch) THEN bs
    ELSE sc_trace(cx, ch, i + 1,
                  Append(bs, IF ch[i] < 0 THEN Min2(bs[Len(bs)] + cx.mc, cx.h - 1)
                             ELSE sc_cand_y(cx, i)[ch[i] + 1]))

\* dp[last_i][best_j] >= INF / 2: fall back to the greedy pass
sc_infeasible(rows_dp) ==
    LET last == rows_dp[Len(rows_dp)]
    IN last[FirstArgMin(sa_last_values(last)) + 1].v >= INF

sc_path(cx) ==
    IF cx.cnt - 1 < 1 THEN "single"
    ELSE IF sc_infeasible(sc_rows(cx, cx.cnt - 1)) THEN "greedy" ELSE "dp"

sc_boundaries(cx) ==
    IF cx.cnt - 1 < 1 THEN <<0, cx.h>>
    ELSE CHOOSE bs \in
           { IF sc_infeasible(rs) THEN Append(sc_greedy(cx, 1, <<0>>), cx.h)
             ELSE Append(sc_trace(cx,
                                  sa_chosen(rs, cx.cnt - 1,
                                            FirstArgMin(sa_last_values(rs[cx.cnt - 1]))),
                                  1, <<0>>), cx.h)
             : rs \in {sc_rows(cx, cx.cnt - 1)} } : TRUE

\* the CharBox loop: if cy1 <= cy0: cy1 = min(col_h, cy0 + 1)
sc_boxes(bs, h, cnt) ==
    [i \in 1..cnt |->
        <<bs[i], IF bs[i + 1] <= bs[i] THEN Min2(h, bs[i] + 1) ELSE bs[i + 1]>>]

split_column_into_chars(rows, cnt) ==
    CHOOSE out \in {sc_boxes(bs, Len(rows), cnt) :
                      bs \in {sc_boundaries(sc_context(rows, cnt))}} : TRUE

ColumnIdle ==
    /\ col_rows = <<>>
    /\ col_count = 0
    /\ char_boxes = <<>>
    /\ col_path = "none"
    /\ col_error = "none"
    /\ kpc = "idle"

ColumnInit ==
    /\ \E h \in 1..MaxColH, kind \in ColKinds : col_rows = ColumnRows(h, kind)
    /\ col_count \in 1..MaxChars
    /\ char_boxes = <<>>
    /\ col_path = "none"
    /\ col_error = "none"
    /\ kpc = "call"

SplitColumn ==
    /\ kpc = "call"
    /\ \E cx \in {sc_context(col_rows, col_count)} :
          IF sc_raises(cx)
          THEN /\ col_error' = "IndexError"
               /\ char_boxes' = <<>>
               /\ col_path' = "none"
          ELSE /\ col_error' = "none"
               /\ char_boxes' = split_column_into_chars(col_rows, col_count)
               /\ col_path' = sc_path(cx)
    /\ kpc' = "done"
    /\ UNCHANGED <<col_rows, col_count>>

\* -- cells of the greedy fallback --
\* expected_count cells, contiguous from 0 to the column height, none empty
CellsTile(boxes, h, cnt) ==
    /\ Len(boxes) = cnt
    /\ boxes[1][1] = 0
    /\ boxes[cnt][2] = h
    /\ \A i \in 1..cnt : boxes[i][2] - boxes[i][1] >= 1
    /\ \A i \in 1..(cnt - 1) : boxes[i][2] = boxes[i + 1][1]

\* C18 as stated: whenever the boundary DP has no feasible path, the greedy
\* fallback returns expected_count contiguous cells from y = 0 to the column
\* height, each at least one pixel high, without raising
C18_GreedyCellsAlways ==
    (kpc = "done" /\ col_path = "greedy") =>
        /\ col_error = "none"
        /\ CellsTile(char_boxes, Len(col_rows), col_count)

\* C18: when the boundary DP has no feasible path and expected_count does
\* not exceed the column height, the greedy fallback returns expected_count
\* contiguous cells from y = 0 to the column height, each at least one
\* pixel high, without raising
C18_GreedyCells ==
    (kpc = "done" /\ col_path = "greedy" /\ col_count <= Len(col_rows)) =>
        /\ col_error = "none"
        /\ CellsTile(char_boxes, Len(col_rows), col_count)

\* the fallback ran on an inked column for several cells
C18_Witness ==
    /\ kpc = "done" /\ col_path = "greedy"
    /\ col_count >= 4 /\ col_count <= Len(col_rows)
    /\ \E k \in 1..Len(col_rows) : col_rows[k] > 0
    /\ CellsTile(char_boxes, Len(col_rows), col_count)

\* ------------------------------------------------------------------------
\* SquareRenderer (extract_lantingjixu_chars.py render_square) and the
\* centre measurement of the QA pass (qa_char_crops.py compute_center_offset)
\* ------------------------------------------------------------------------
\* The crop is a black rectangle on white paper.  A resized pixel is ink when
\* its centre falls strictly inside the rectangle of the source: at an exact
\* edge the resampling filter gives the mean of ink and paper, 127.5, which
\* none of the strict thresholds (125, 155) accepts.  Resizing is separable,
\* so the ink of every image is a set of columns times a set of rows.

MaxCrop == 20

CanvasSizes == {16, 33}

InnerPads == {0, 3}

NoCanvas == [x |-> 0, y |-> 0, final_w |-> 0, final_h |-> 0, ink_x |-> {}, ink_y |-> {}]

NoCenter == [ok |-> FALSE, dx |-> [num |-> 0, den |-> 1], dy |-> [num |-> 0, den |-> 1]]

\* Image.resize along one axis: the ink pixels of the dstLen-pixel result
\* when the source of srcLen pixels has ink on [lo, hi).
Resample(lo, hi, srcLen, dstLen) ==
    {k \in 0..(dstLen - 1) :
        /\ 2 * lo * dstLen < (2 * k + 1) * srcLen
        /\ (2 * k + 1) * srcLen < 2 * hi * dstLen}

SetMin(s) == CHOOSE a \in s : \A b \in s : a <= b

SetMax(s) == CHOOSE a \in s : \A b \in s : a >= b

rs_max_side(size, inner_pad) == Max2(1, size - inner_pad * 2)

\* max(1, int(round(side * scale))) with scale = min(max_w / w, max_h / h)
\* and max_w = max_h
rs_fit(side, w, h, maxSide) == Max2(1, RoundHalfEven(side * maxSide, Max2(w, h)))

rs_min_area(work_w, work_h) == Max2(20, (work_w * work_h * 6) \div 10000)

rs_expand(work_w, work_h) == Max2(8, RoundHalfEven(Min2(work_w, work_h), 10))

rs_pad(work_w, work_h) == Max2(4, RoundHalfEven(Min2(work_w, work_h) * 6, 100))

\* Step 2: the ink bbox in the working image, <<x0, y0, x1, y1>>.
rs_ink_bbox(wx, wy, work_w, work_h) ==
    LET area == Cardinality(wx) * Cardinality(wy)
    IN  IF area = 0 \/ area < rs_min_area(work_w, work_h)
        THEN <<0, 0, work_w, work_h>>
        ELSE LET bx == SetMin(wx)
                 by == SetMin(wy)
                 bx1 == SetMax(wx) + 1
                 by1 == SetMax(wy) + 1
                 expand == rs_expand(work_w, work_h)
                 ex0 == Max2(0, bx - expand)
                 ex1 == Min2(work_w, bx1 + expand)
                 ey0 == Max2(0, by - expand)
                 ey1 == Min2(work_h, by1 + expand)
                 sx == {j \in wx : ex0 <= j /\ j < ex1}
                 sy == {j \in wy : ey0 <= j /\ j < ey1}
             IN  IF Cardinality(sx) * Cardinality(sy) >= 60
                 THEN <<Min2(bx, SetMin(sx)), Min2(by, SetMin(sy)),
                        Max2(bx1, SetMax(sx) + 1), Max2(by1, SetMax(sy) + 1)>>
                 ELSE <<bx, by, bx1, by1>>

rs_paste_at_Corner(size, final) == 0

rs_paste_at(size, final) == (size - final) \div 2

render_square(img, size, inner_pad) ==
    LET maxSide == rs_max_side(size, inner_pad)
        work_w == rs_fit(img.w, img.w, img.h, maxSide)
        work_h == rs_fit(img.h, img.w, img.h, maxSide)
        wx == Resample(img.mx, img.w - img.mx, img.w, work_w)
        wy == Resample(img.my, img.h - img.my, img.h, work_h)
        bb == rs_ink_bbox(wx, wy, work_w, work_h)
        pad == rs_pad(work_w, work_h)
        x0 == Max2(0, bb[1] - pad)
        y0 == Max2(0, bb[2] - pad)
        x1 == Min2(work_w, bb[3] + pad)
        y1 == Min2(work_h, bb[4] + pad)
        tx == {j - x0 : j \in {i \in wx : x0 <= i /\ i < x1}}
        ty == {j - y0 : j \in {i \in wy : y0 <= i /\ i < y1}}
        final_w == rs_fit(x1 - x0, x1 - x0, y1 - y0, maxSide)
        final_h == rs_fit(y1 - y0, x1 - x0, y1 - y0, maxSide)
        fx == IF tx = {} THEN {} ELSE Resample(SetMin(tx), SetMax(tx) + 1, x1 - x0, final_w)
        fy == IF ty = {} THEN {} ELSE Resample(SetMin(ty), SetMax(ty) + 1, y1 - y0, final_h)
        x == rs_paste_at(size, final_w)
        y == rs_paste_at(size, final_h)
    IN  [x |-> x, y |-> y, final_w |-> final_w, final_h |-> final_h,
         ink_x |-> {x + k : k \in fx} \cap (0..(size - 1)),
         ink_y |-> {y + k : k \in fy} \cap (0..(size - 1))]

RECURSIVE SetSum(_)
SetSum(s) == IF s = {} THEN 0 ELSE LET a == SetMin(s) IN a + SetSum(s \ {a})

\* Black ink differs from the background (10, 10, 12) by more than 8 and is
\* below every ink threshold of the patch (at least 70); white paper is above
\* them (at most 160).  The offset is the mean of the ink pixel indices minus
\* half the canvas side, kept as a fraction; None below 80 ink pixels.
compute_center_offset(canvas, size) ==
    LET nx == Cardinality(canvas.ink_x)
        ny == Cardinality(canvas.ink_y)
    IN  IF nx * ny < 80
        THEN NoCenter
        ELSE [ok |-> TRUE,
              dx |-> [num |-> 2 * SetSum(canvas.ink_x) - size * nx, den |-> 2 * nx],
              dy |-> [num |-> 2 * SetSum(canvas.ink_y) - size * ny, den |-> 2 * ny]]

\* Crops holding one solid rectangle with equal margins left and right, and
\* equal margins above and below.
CentredCrops ==
    {[w |-> w, h |-> h, mx |-> mx, my |-> my] :
        w \in 1..MaxCrop, h \in 1..MaxCrop,
        mx \in 0..((MaxCrop - 1) \div 2), my \in 0..((MaxCrop - 1) \div 2)}

RenderIdle ==
    /\ rs_img = [w |-> 1, h |-> 1, mx |-> 0, my |-> 0]
    /\ rs_size = 0
    /\ rs_inner_pad = 0
    /\ rs_canvas = NoCanvas
    /\ rs_center = NoCenter
    /\ npc = "idle"

RenderInit ==
    /\ rs_img \in {c \in CentredCrops : 2 * c.mx < c.w /\ 2 * c.my < c.h}
    /\ rs_size \in CanvasSizes
    /\ rs_inner_pad \in InnerPads
    /\ rs_canvas = NoCanvas
    /\ rs_center = NoCenter
    /\ npc = "crop"

RenderSquare ==
    /\ npc = "crop"
    /\ rs_canvas' = render_square(rs_img, rs_size, rs_inner_pad)
    /\ npc' = "rendered"
    /\ UNCHANGED <<rs_img, rs_size, rs_inner_pad, rs_center>>

MeasureCenter ==
    /\ npc = "rendered"
    /\ rs_center' = compute_center_offset(rs_canvas, rs_size)
    /\ npc' = "measured"
    /\ UNCHANGED <<rs_img, rs_size, rs_inner_pad, rs_canvas>>

RenderStep == RenderSquare \/ MeasureCenter

AbsInt(a) == IF a < 0 THEN -a ELSE a

MaxItems == 3

split_min_gap == 8

split_min_ink == 10

SplitPageLen == 40

\* clamp_box of the split builder along one axis
sp_clamp(lo, hi, n) ==
    LET a == Max2(0, Min2(lo, n - 1))
    IN  <<a, Max2(a + 1, Min2(hi, n))>>

\* Detections of detections-seq: id, flags, box along the split axis and
\* the ink of the page mask per row (per column) of the box.  d3 is below
\* the default --min-box-size (10) of the sequence builder and carries its
\* "ignored" flag; d5 and d6 come from a run with a lower --min-box-size.
SeqDetections ==
    <<[id |-> "d1", flags |-> {}, lo |-> 2, hi |-> 26,
       ink |-> [k \in 1..24 |-> IF k = 12 THEN 0 ELSE 3]],
      [id |-> "d2", flags |-> {"low_ink"}, lo |-> 0, hi |-> 10,
       ink |-> [k \in 1..10 |-> 3]],
      [id |-> "d3", flags |-> {"too_small", "ignored"}, lo |-> 12, hi |-> 16,
       ink |-> [k \in 1..4 |-> 2]],
      [id |-> "d4", flags |-> {}, lo |-> 17, hi |-> 29,
       ink |-> [k \in 1..12 |-> 0]],
      [id |-> "d5", flags |-> {}, lo |-> 30, hi |-> 38,
       ink |-> [k \in 1..8 |-> 3]],
      [id |-> "d6", flags |-> {}, lo |-> 36, hi |-> 44,
       ink |-> [k \in 1..4 |-> 3]]>>

NoDet == [id |-> "", flags |-> {}, lo |-> 0, hi |-> 0, ink |-> <<>>]

\* det_by_id.get(det_id)
det_by_id(id) ==
    IF \E k \in 1..Len(SeqDetections) : SeqDetections[k].id = id
    THEN SeqDetections[CHOOSE k \in 1..Len(SeqDetections) : SeqDetections[k].id = id]
    ELSE NoDet

\* pick_split: index of the first minimum of the projection in the middle
\* window, -1 for None
pick_split(p) ==
    LET n == Len(p)
        mid == n \div 2
        win == Max2(6, RoundHalfEven(n * 18, 100))
        lo == Max2(2, mid - win)
        hi == Min2(n - 2, mid + win)
    IN  IF n <= 0 \/ n < 20 \/ hi <= lo THEN -1
        ELSE CHOOSE i \in lo..(hi - 1) :
                 \A j \in lo..(hi - 1) : p[i + 1] < p[j + 1] \/ (p[i + 1] = p[j + 1] /\ i <= j)

\* the crops the loop body asks emit() for, in call order
sp_plan(a, det) ==
    LET box == sp_clamp(det.lo, det.hi, SplitPageLen)
        y0 == box[1]
        y1 == box[2]
    IN  IF a.take <= 1 \/ Len(a.text) <= 1
        THEN <<[box |-> box, ch |-> IF a.text = <<>> THEN "?" ELSE a.text[1], suffix |-> ""]>>
        ELSE IF SeqSum(det.ink) < split_min_ink
        THEN LET m == (y0 + y1) \div 2
             IN  <<[box |-> <<y0, m>>, ch |-> a.text[1], suffix |-> "a"],
                   [box |-> <<m, y1>>, ch |-> a.text[2], suffix |-> "b"]>>
        ELSE LET c == pick_split(det.ink)
                 cut == IF c < 0 THEN Len(det.ink) \div 2 ELSE c
                 cut_y == Max2(y0 + split_min_gap, Min2(y0 + cut, y1 - split_min_gap))
             IN  <<[box |-> <<y0, cut_y>>, ch |-> a.text[1], suffix |-> "a"],
                   [box |-> <<cut_y, y1>>, ch |-> a.text[2], suffix |-> "b"]>>

\* emit(): render_square divides by the crop's width and height, so a crop
\* without pixels raises instead of producing a glyph.
sp_emit_raises(g) == g.box[2] <= g.box[1]

sp_entry(a, g, idx) ==
    [index |-> idx, char |-> g.ch, suffix |-> g.suffix, det_id |-> a.id,
     take |-> a.take, crop_box |-> g.box]

RECURSIVE sp_emit_all(_, _, _, _)
sp_emit_all(a, plan, es, idx) ==
    IF plan = <<>> THEN [entries |-> es, out_idx |-> idx, error |-> "none"]
    ELSE IF sp_emit_raises(Head(plan))
    THEN [entries |-> es, out_idx |-> idx + 1, error |-> "ZeroDivisionError"]
    ELSE sp_emit_all(a, Tail(plan), Append(es, sp_entry(a, Head(plan), idx + 1)), idx + 1)

sp_skipped(a) ==
    LET det == det_by_id(a.id)
    IN  det = NoDet \/ "ignored" \in det.flags

\* aligned[]: detection ids in increasing order, take 1 or 2, and as many
\* transcription characters as take
ItemText(text_index, take) ==
    [k \in 1..take |-> TextChars[((text_index + k - 2) % Len(TextChars)) + 1]]

SplitDetIds == {"d0"} \cup {SeqDetections[k].id : k \in 1..Len(SeqDetections)}

IdRank(id) == IF id = "d0" THEN 0 ELSE CHOOSE k \in 1..Len(SeqDetections) : SeqDetections[k].id = id

RECURSIVE TextIndexAt(_, _)
TextIndexAt(takes, k) == IF k <= 1 THEN 1 ELSE TextIndexAt(takes, k - 1) + takes[k - 1]

AlignedLists ==
    UNION {{[k \in 1..n |-> [id |-> dids[k], take |-> takes[k],
                             text |-> ItemText(TextIndexAt(takes, k), takes[k])]] :
                dids \in {s \in [1..n -> SplitDetIds] :
                            \A i, j \in 1..n : i < j => IdRank(s[i]) < IdRank(s[j])},
                takes \in [1..n -> {1, 2}]} : n \in 1..MaxItems}

SplitIdle ==
    /\ sp_aligned = <<>>
    /\ sp_k = 0
    /\ sp_entries = <<>>
    /\ out_idx = 0
    /\ sp_index = NoIndex
    /\ sp_error = "none"
    /\ spc = "idle"

SplitInit ==
    /\ sp_aligned \in AlignedLists
    /\ sp_k = 1
    /\ sp_entries = <<>>
    /\ out_idx = 0
    /\ sp_index = NoIndex
    /\ sp_error = "none"
    /\ spc = "items"

\* one pass of "for a in aligned"
SplitItem ==
    /\ spc = "items"
    /\ sp_k <= Len(sp_aligned)
    /\ LET a == sp_aligned[sp_k]
           r == IF sp_skipped(a)
                THEN [entries |-> sp_entries, out_idx |-> out_idx, error |-> "none"]
                ELSE sp_emit_all(a, sp_plan(a, det_by_id(a.id)), sp_entries, out_idx)
       IN  /\ sp_entries' = r.entries
           /\ out_idx' = r.out_idx
           /\ sp_error' = r.error
           /\ spc' = IF r.error = "none" THEN "items" ELSE "failed"
    /\ sp_k' = sp_k + 1
    /\ UNCHANGED <<sp_aligned, sp_index>>

WriteSplitIndex ==
    /\ spc = "items"
    /\ sp_k > Len(sp_aligned)
    /\ sp_index' = [total_chars |-> Len(sp_entries), files |-> sp_entries]
    /\ spc' = "written"
    /\ UNCHANGED <<sp_aligned, sp_k, sp_entries, out_idx, sp_error>>

SplitStep == SplitItem \/ WriteSplitIndex

\* the labels the aligned items call for, in order
RECURSIVE TakeLabels(_)
TakeLabels(items) ==
    IF items = <<>> THEN <<>>
    ELSE (IF Head(items).take = 2 THEN <<Head(items).text[1], Head(items).text[2]>>
          ELSE <<Head(items).text[1]>>) \o TakeLabels(Tail(items))

SumTake(items) == SeqSum([k \in 1..Len(items) |-> items[k].take])

\* C20: every aligned item yields exactly take glyphs, labelled with its
\* first (and second) character in order, so the dataset has the sum of
\* take as its entry count, numbered 1..total without gaps.
C20_TakeGlyphs ==
    (spc \in {"written", "failed"}) =>
        /\ spc = "written"
        /\ sp_index.total_chars = SumTake(sp_aligned)
        /\ [k \in 1..Len(sp_index.files) |-> sp_index.files[k].char] = TakeLabels(sp_aligned)
        /\ \A k \in 1..Len(sp_index.files) : sp_index.files[k].index = k

\* C28: when a detection box is split for take = 2, the two crop boxes are
\* both non-empty, do not overlap, lie inside the detection box and together
\* cover it exactly, the first preceding the second along the reading axis,
\* whatever the size of the box.
C28_SplitPartitionsBox ==
    \A i \in 1..(sp_k - 1) :
        LET a == sp_aligned[i]
            det == det_by_id(a.id)
            box == sp_clamp(det.lo, det.hi, SplitPageLen)
            plan == sp_plan(a, det)
        IN  (a.take = 2 /\ Len(a.text) >= 2 /\ ~sp_skipped(a)) =>
               /\ Len(plan) = 2
               /\ plan[1].box[1] = box[1]
               /\ plan[1].box[1] < plan[1].box[2]
               /\ plan[1].box[2] = plan[2].box[1]
               /\ plan[2].box[1] < plan[2].box[2]
               /\ plan[2].box[2] = box[2]

\* ------------------------------------------------------------------------
\* Detector refiner: contact_ink_sides and the expansion loop of main
\* (ml_refine_crops_with_detector.py)
\* ------------------------------------------------------------------------

\* Same outer region, ring, inner mask and dilation as
\* contact_ring_ink_directional; the band is cut by a rounded pad.
contact_ink_sides(m, box, ring_px) ==
    LET g == RingGeom(box, ring_px)
        contact == ContactPixels(m, box, g)
        bh == Max2(1, g.iy1 - g.iy0)
        bw == Max2(1, g.ix1 - g.ix0)
        pad_y == RoundHalfEven(bh, 5)
        pad_x == RoundHalfEven(bw, 5)
        by0 == Max2(0, g.iy0 + pad_y)
        by1 == Min2(g.hh, g.iy1 - pad_y)
        bx0 == Max2(0, g.ix0 + pad_x)
        bx1 == Min2(g.ww, g.ix1 - pad_x)
        InBandY(p) == by0 <= p[2] /\ p[2] < by1
        InBandX(p) == bx0 <= p[1] /\ p[1] < bx1
    IN IF g.ex1 <= g.ex0 + 1 \/ g.ey1 <= g.ey0 + 1 THEN ContactInk(0, 0, 0, 0, 0)
       ELSE ContactInk(
               Cardinality(contact),
               Cardinality({p \in contact : InBandY(p) /\ p[1] < g.ix0}),
               Cardinality({p \in contact : InBandY(p) /\ p[1] >= g.ix1}),
               Cardinality({p \in contact : InBandX(p) /\ p[2] < g.iy0}),
               Cardinality({p \in contact : InBandX(p) /\ p[2] >= g.iy1}))

NoBox == Box(0, 0, 0, 0)

\* intersect(a, b), NoBox for None
intersect(a, b) ==
    LET x0 == Max2(a.x0, b.x0)
        y0 == Max2(a.y0, b.y0)
        x1 == Min2(a.x1, b.x1)
        y1 == Min2(a.y1, b.y1)
    IN  IF x1 <= x0 \/ y1 <= y0 THEN NoBox ELSE Box(x0, y0, x1, y1)

ex_step(box, p) ==
    Max2(p.step_min, RoundHalfEven(2 * Min2(box.x1 - box.x0, box.y1 - box.y0), 25))

ex_safe_column(row) == Box(row.x0, 0, row.x1, PageH)

\* next_box of one iteration
ex_next_box(box, c, p, row) ==
    LET step == ex_step(box, p)
        moved == Box(box.x0 - (IF c.left >= p.side_thr THEN step ELSE 0),
                     box.y0 - (IF c.top >= p.side_thr THEN step ELSE 0),
                     box.x1 + (IF c.right >= p.side_thr THEN step ELSE 0),
                     box.y1 + (IF c.bottom >= p.side_thr THEN step ELSE 0))
        nb == clamp_box(moved, PageW, PageH)
        in_row == intersect(nb, row)
        in_col == intersect(nb, ex_safe_column(row))
    IN  clamp_box(IF in_row # NoBox THEN in_row ELSE IF in_col # NoBox THEN in_col ELSE nb,
                  PageW, PageH)

MaxExpandIters == 3

ExpandParams ==
    { [ring_px |-> 10, side_thr |-> 25, step_min |-> 4, max_iters |-> 2],
      [ring_px |-> 8, side_thr |-> 3, step_min |-> 4, max_iters |-> 2],
      [ring_px |-> 2, side_thr |-> 3, step_min |-> 2, max_iters |-> MaxExpandIters] }

SafeRowBoxes ==
    { Box(0, 0, PageW, PageH), Box(4, 2, 18, PageH - 2), Box(6, 8, 14, 22) }

ExpandIdle ==
    /\ ex_ink = {}
    /\ ex_safe_row = Box(0, 0, 1, 1)
    /\ ex_params = [ring_px |-> 10, side_thr |-> 25, step_min |-> 4, max_iters |-> 2]
    /\ ex_box0 = Box(0, 0, 1, 1)
    /\ ex_box = Box(0, 0, 1, 1)
    /\ expand_log = <<>>
    /\ epc = "idle"

ExpandInit ==
    /\ ex_ink \in InkMasks
    /\ ex_safe_row \in SafeRowBoxes
    /\ ex_params \in ExpandParams
    /\ ex_box0 \in {clamp_box(b, PageW, PageH) : b \in InitialBoxes}
    /\ ex_box = ex_box0
    /\ expand_log = <<>>
    /\ epc = "loop"

\* one pass of "for _it in range(expand_max_iters)"
ExpandIterate ==
    /\ epc = "loop" /\ Len(expand_log) < ex_params.max_iters
    /\ LET c == contact_ink_sides(ex_ink, ex_box, ex_params.ring_px)
           none == /\ c.left < ex_params.side_thr /\ c.right < ex_params.side_thr
                   /\ c.top < ex_params.side_thr /\ c.bottom < ex_params.side_thr
           nb == ex_next_box(ex_box, c, ex_params, ex_safe_row)
       IN  IF none
           THEN /\ epc' = "done"
                /\ UNCHANGED <<ex_box, expand_log>>
           ELSE /\ ex_box' = nb
                /\ expand_log' = Append(expand_log, [contact |-> c, step |-> ex_step(ex_box, ex_params), box |-> nb])
                /\ epc' = "loop"
    /\ UNCHANGED <<ex_ink, ex_safe_row, ex_params, ex_box0>>

\* range(expand_max_iters) is used up
ExpandExhausted ==
    /\ epc = "loop" /\ Len(expand_log) >= ex_params.max_iters
    /\ epc' = "done"
    /\ UNCHANGED <<ex_ink, ex_safe_row, ex_params, ex_box0, ex_box, expand_log>>

ExpandStep == ExpandIterate \/ ExpandExhausted

BoxBefore(k) == IF k = 1 THEN ex_box0 ELSE expand_log[k - 1].box

\* C21: the refinement loop ends within max_iter iterations and every
\* iteration it performs changes the box: it stops as soon as nothing is
\* left to accept or no direction at or above the trigger can still move.
C21_EveryIterationMoves ==
    /\ Len(expand_log) <= ex_params.max_iters
    /\ \A k \in 1..Len(expand_log) : expand_log[k].box # BoxBefore(k)

\* ------------------------------------------------------------------------
\* ContactAnalyzer: the three implementations side by side
\* (qa_char_crops.py compute_outer_ring_ink, extract_lantingjixu_chars.py
\* contact_ring_ink_directional, ml_refine_crops_with_detector.py
\* contact_ink_sides)
\* ------------------------------------------------------------------------

\* The page crops of the QA pass are in-page slices of the same ink mask.
compute_outer_ring_ink(m, box, ring_px) ==
    LET g == RingGeom(box, ring_px)
        contact == ContactPixels(m, box, g)
        ring == {p \in (0..(g.ww - 1)) \X (0..(g.hh - 1)) : RingInk(m, g, p[1], p[2])}
        inner_w == Max2(1, g.ix1 - g.ix0)
        inner_h == Max2(1, g.iy1 - g.iy0)
        band_x0 == Clip(BandLo(g.ix0, inner_w), 0, g.ww)
        band_x1 == Clip(BandHi(g.ix1, inner_w), 0, g.ww)
        band_y0 == Clip(BandLo(g.iy0, inner_h), 0, g.hh)
        band_y1 == Clip(BandHi(g.iy1, inner_h), 0, g.hh)
        InBandY(p) == band_y0 <= p[2] /\ p[2] < band_y1
        InBandX(p) == band_x0 <= p[1] /\ p[1] < band_x1
    IN IF g.ex1 <= g.ex0 + 1 \/ g.ey1 <= g.ey0 + 1
       THEN [ring_ink_pixels |-> 0, contact_ink_pixels |-> 0, contact_left |-> 0,
             contact_right |-> 0, contact_top |-> 0, contact_bottom |-> 0]
       ELSE [ring_ink_pixels |-> Cardinality(ring),
             contact_ink_pixels |-> Cardinality(contact),
             contact_left |-> Cardinality({p \in contact : InBandY(p) /\ p[1] < Max2(0, g.ix0)}),
             contact_right |-> Cardinality({p \in contact : InBandY(p) /\ p[1] >= Min2(g.ww, g.ix1)}),
             contact_top |-> Cardinality({p \in contact : InBandX(p) /\ p[2] < Max2(0, g.iy0)}),
             contact_bottom |-> Cardinality({p \in contact : InBandX(p) /\ p[2] >= Min2(g.hh, g.iy1)})]

NoRingInk ==
    [ring_ink_pixels |-> 0, contact_ink_pixels |-> 0, contact_left |-> 0,
     contact_right |-> 0, contact_top |-> 0, contact_bottom |-> 0]

\* Ink masks of the refiner, and a glyph that fills its box with ink touching
\* the box only across a corner.
ContactMasks ==
    InkMasks \cup { {Box(8, 10, 16, 20), Box(16, 20, 18, 22)} }

\* boxes inside the page: in the middle, on the page edges, three pixels wide
ContactBoxes ==
    InitialBoxes \cup
    { Box(0, 0, 10, 12), Box(14, 18, PageW, PageH), Box(9, 9, 12, 12), Box(8, 10, 15, 21) }

MaxRing == 8

RingWidths == {1, 2, MaxRing}

ContactIdle ==
    /\ ct_ink = {}
    /\ ct_box = Box(0, 0, 1, 1)
    /\ ct_ring_px = 1
    /\ ct_extract = ContactInk(0, 0, 0, 0, 0)
    /\ ct_sides = ContactInk(0, 0, 0, 0, 0)
    /\ ct_qa = NoRingInk
    /\ tpc = {"idle"}

ContactInit ==
    /\ ct_ink \in ContactMasks
    /\ ct_box \in ContactBoxes
    /\ ct_ring_px \in RingWidths
    /\ ct_extract = ContactInk(0, 0, 0, 0, 0)
    /\ ct_sides = ContactInk(0, 0, 0, 0, 0)
    /\ ct_qa = NoRingInk
    /\ tpc = {}

CallContactRing ==
    /\ "extract" \notin tpc /\ "idle" \notin tpc
    /\ ct_extract' = contact_ring_ink_directional(ct_ink, ct_box, ct_ring_px)
    /\ tpc' = tpc \cup {"extract"}
    /\ UNCHANGED <<ct_ink, ct_box, ct_ring_px, ct_sides, ct_qa>>

CallContactSides ==
    /\ "sides" \notin tpc /\ "idle" \notin tpc
    /\ ct_sides' = contact_ink_sides(ct_ink, ct_box, ct_ring_px)
    /\ tpc' = tpc \cup {"sides"}
    /\ UNCHANGED <<ct_ink, ct_box, ct_ring_px, ct_extract, ct_qa>>

CallOuterRing ==
    /\ "qa" \notin tpc /\ "idle" \notin tpc
    /\ ct_qa' = compute_outer_ring_ink(ct_ink, ct_box, ct_ring_px)
    /\ tpc' = tpc \cup {"qa"}
    /\ UNCHANGED <<ct_ink, ct_box, ct_ring_px, ct_extract, ct_sides>>

ContactStep == CallContactRing \/ CallContactSides \/ CallOuterRing

InBox(b, x, y) == b.x0 <= x /\ x < b.x1 /\ b.y0 <= y /\ y < b.y1

\* ink pixels outside the box, within r of it, 8-adjacent to ink inside it
TouchingInk(m, b, r) ==
    {p \in (0..(PageW - 1)) \X (0..(PageH - 1)) :
        /\ Ink(m, p[1], p[2])
        /\ ~InBox(b, p[1], p[2])
        /\ InBox(Box(b.x0 - r, b.y0 - r, b.x1 + r, b.y1 + r), p[1], p[2])
        /\ \E dx \in {-1, 0, 1}, dy \in {-1, 0, 1} :
              /\ <<dx, dy>> # <<0, 0>>
              /\ InBox(b, p[1] + dx, p[2] + dy)
              /\ Ink(m, p[1] + dx, p[2] + dy)}

\* C23: for every ink mask and every box inside the page the total contact
\* count is the number of ink pixels outside the box, within ring width r of
\* it and inside the page, that are 8-adjacent to an ink pixel inside the box.
C23_ContactIsTouchingInk ==
    /\ ("extract" \in tpc) =>
          ct_extract.total = Cardinality(TouchingInk(ct_ink, ct_box, Max2(1, ct_ring_px)))
    /\ ("qa" \in tpc) =>
          ct_qa.contact_ink_pixels = Cardinality(TouchingInk(ct_ink, ct_box, Max2(1, ct_ring_px)))

\* both analyzers ran on a glyph touched across a corner and along a side
C23_Witness ==
    /\ {"extract", "qa"} \subseteq tpc
    /\ ct_extract.total > 0
    /\ ct_extract.total > ct_extract.left + ct_extract.right + ct_extract.top + ct_extract.bottom
    /\ ct_qa.ring_ink_pixels > ct_qa.contact_ink_pixels

\* C27: for the same ink mask, in-page box, ring width and band ratio 0.6 the
\* QA engine's contact analysis and the two refiners' contact analyses return
\* the same total and the same left, right, top and bottom counts.
C27_SameContact ==
    ({"extract", "sides", "qa"} \subseteq tpc) =>
        /\ ct_sides = ct_extract
        /\ ct_qa.contact_ink_pixels = ct_extract.total
        /\ ct_qa.contact_left = ct_extract.left
        /\ ct_qa.contact_right = ct_extract.right
        /\ ct_qa.contact_top = ct_extract.top
        /\ ct_qa.contact_bottom = ct_extract.bottom

\* ------------------------------------------------------------------------
\* GlyphTrimmer (extract_lantingjixu_chars.py trim_glyph)
\* ------------------------------------------------------------------------
\* The context crop is given by what the masks and the component labelling
\* yield: its size, the strict-mask components in label order and the ink
\* that only the loose mask holds.  Every component is a solid rectangle, so
\* its area, centroid and contour length follow from its corners; centroids
\* and the expected centre are kept doubled.

tg_area(r) == (r.x1 - r.x0) * (r.y1 - r.y0)

tg_region_area(img) == img.w * img.h

tg_min_area(img) == Max2(36, (tg_region_area(img) * 2) \div 1000)

tg_loose_need(img) == Max2(12, (tg_region_area(img) * 8) \div 10000)

\* cv2.arcLength of the external contour of a solid rectangle
tg_perimeter(r) == 2 * ((r.x1 - r.x0 - 1) + (r.y1 - r.y0 - 1))

\* per_area > 0 and per_area <= limit / 1000
tg_blocky(r, limit) ==
    tg_perimeter(r) > 0 /\ 1000 * tg_perimeter(r) <= limit * tg_area(r)

\* "Drop obvious occlusion blocks": area_ratio >= 0.55, fill >= 0.70 (a
\* solid rectangle has fill 1), 0 < per_area <= 0.045
tg_occlusion(img, r) ==
    100 * tg_area(r) >= 55 * tg_region_area(img) /\ tg_blocky(r, 45)

tg_touch(img, r) ==
    (IF r.x0 <= 1 THEN 1 ELSE 0) + (IF r.y0 <= 1 THEN 1 ELSE 0)
    + (IF r.x1 >= img.w - 2 THEN 1 ELSE 0) + (IF r.y1 >= img.h - 2 THEN 1 ELSE 0)

tg_abs(a) == IF a < 0 THEN -a ELSE a

\* score * 200 * w * h
tg_score(img, r, c2) ==
    LET wh == tg_region_area(img)
        cx2 == r.x0 + r.x1 - 1
        cy2 == r.y0 + r.y1 - 1
    IN  65 * (tg_abs(cx2 - c2[1]) * img.h + tg_abs(cy2 - c2[2]) * img.w)
        - 124 * Min2(wh, 10 * tg_area(r))
        + (IF tg_blocky(r, 60) THEN 36 * wh ELSE 0)
        + (IF 100 * tg_area(r) >= 65 * wh THEN 20 * wh ELSE 0)
        + 12 * wh * tg_touch(img, r)

\* comps: the components that pass the area and occlusion filters, in label order
RECURSIVE tg_comps(_, _)
tg_comps(img, rs) ==
    IF rs = <<>> THEN <<>>
    ELSE IF tg_area(Head(rs)) < tg_min_area(img) \/ tg_occlusion(img, Head(rs))
         THEN tg_comps(img, Tail(rs))
         ELSE <<Head(rs)>> \o tg_comps(img, Tail(rs))

\* comps.sort(key=score)[0]: the first component of least score
tg_best(img, comps, c2) ==
    comps[CHOOSE k \in 1..Len(comps) :
            \A j \in 1..Len(comps) :
                \/ tg_score(img, comps[k], c2) < tg_score(img, comps[j], c2)
                \/ (tg_score(img, comps[k], c2) = tg_score(img, comps[j], c2) /\ k <= j)]

\* ink of the loose mask: the strict ink and the faint ink
tg_loose(img) == {img.strict[k] : k \in 1..Len(img.strict)} \cup img.faint

tg_clip(r, win) ==
    Box(Max2(r.x0, win.x0), Max2(r.y0, win.y0), Min2(r.x1, win.x1), Min2(r.y1, win.y1))

tg_parts(img, win) ==
    {p \in {tg_clip(r, win) : r \in tg_loose(img)} : p.x0 < p.x1 /\ p.y0 < p.y1}

RECURSIVE tg_sum_area(_)
tg_sum_area(ps) ==
    IF ps = {} THEN 0
    ELSE LET p == CHOOSE q \in ps : TRUE IN tg_area(p) + tg_sum_area(ps \ {p})

\* bbox of a non-empty set of rectangles
tg_hull(ps) ==
    Box(SetMin({p.x0 : p \in ps}), SetMin({p.y0 : p \in ps}),
        SetMax({p.x1 : p \in ps}), SetMax({p.y1 : p \in ps}))

tg_pad_box(img, b, pad_px) ==
    Box(Max2(0, b.x0 - pad_px), Max2(0, b.y0 - pad_px),
        Min2(img.w, b.x1 + pad_px), Min2(img.h, b.y1 + pad_px))

tg_edge_touch(img, b) ==
    (IF b.x0 <= 2 THEN 1 ELSE 0) + (IF b.y0 <= 2 THEN 1 ELSE 0)
    + (IF b.x1 >= img.w - 3 THEN 1 ELSE 0) + (IF b.y1 >= img.h - 3 THEN 1 ELSE 0)

\* the components whose centroid lies in the expanded box of the best one
tg_sel(img, comps, best) ==
    LET expand == Max2(8, RoundHalfEven(Min2(img.w, img.h), 10))
        ex0 == Max2(0, best.x0 - expand)
        ex1 == Min2(img.w, best.x1 + expand)
        ey0 == Max2(0, best.y0 - expand)
        ey1 == Min2(img.h, best.y1 + expand)
    IN  {comps[k] : k \in {j \in 1..Len(comps) :
            /\ 2 * ex0 <= comps[j].x0 + comps[j].x1 - 1
            /\ comps[j].x0 + comps[j].x1 - 1 <= 2 * ex1
            /\ 2 * ey0 <= comps[j].y0 + comps[j].y1 - 1
            /\ comps[j].y0 + comps[j].y1 - 1 <= 2 * ey1}}

\* bbox of the selection, grown by the loose ink of its neighbourhood
tg_ink_box(img, sel) ==
    LET b == tg_hull(sel)
        le == Max2(6, RoundHalfEven(Min2(img.w, img.h) * 8, 100))
        win == Box(Max2(0, b.x0 - le), Max2(0, b.y0 - le),
                   Min2(img.w, b.x1 + le), Min2(img.h, b.y1 + le))
        parts == tg_parts(img, win)
    IN  IF tg_sum_area(parts) >= tg_loose_need(img)
        THEN tg_hull(parts \cup {b})
        ELSE b

tg_square_Unclamped(img, b, pad_px) ==
    LET side == Max2(1, Max2(b.x1 - b.x0, b.y1 - b.y0)) + 2 * pad_px
    IN  Box(RoundHalfEven(b.x0 + b.x1 - side, 2), RoundHalfEven(b.y0 + b.y1 - side, 2),
            RoundHalfEven(b.x0 + b.x1 + side, 2), RoundHalfEven(b.y0 + b.y1 + side, 2))

\* "Pad and clamp": the square around the ink box, shifted into the image
tg_square(img, b, pad_px) ==
    LET side == Max2(1, Max2(b.x1 - b.x0, b.y1 - b.y0)) + 2 * pad_px
        ax0 == RoundHalfEven(b.x0 + b.x1 - side, 2)
        ay0 == RoundHalfEven(b.y0 + b.y1 - side, 2)
        ax1 == RoundHalfEven(b.x0 + b.x1 + side, 2)
        ay1 == RoundHalfEven(b.y0 + b.y1 + side, 2)
        bx0 == IF ax0 < 0 THEN 0 ELSE ax0
        bx1 == IF ax0 < 0 THEN ax1 - ax0 ELSE ax1
        by0 == IF ay0 < 0 THEN 0 ELSE ay0
        by1 == IF ay0 < 0 THEN ay1 - ay0 ELSE ay1
        cx0 == IF bx1 > img.w THEN bx0 - (bx1 - img.w) ELSE bx0
        cx1 == IF bx1 > img.w THEN img.w ELSE bx1
        cy0 == IF by1 > img.h THEN by0 - (by1 - img.h) ELSE by0
        cy1 == IF by1 > img.h THEN img.h ELSE by1
        sq == Box(Max2(0, cx0), Max2(0, cy0), Min2(img.w, cx1), Min2(img.h, cy1))
    IN  IF sq.x1 <= sq.x0 + 1 \/ sq.y1 <= sq.y0 + 1
        THEN tg_pad_box(img, b, pad_px)
        ELSE sq

NoQuality == [ink_pixels |-> 0, cc |-> 0, edge_touch |-> 0, is_empty |-> FALSE]

\* trim_glyph: [bbox, quality], bbox = NoBox for None
trim_glyph(img, c2, pad_px) ==
    LET comps == tg_comps(img, img.strict)
        all == tg_parts(img, Box(0, 0, img.w, img.h))
    IN  IF comps = <<>>
        THEN IF tg_sum_area(all) >= tg_loose_need(img)
             THEN LET b == tg_pad_box(img, tg_hull(all), pad_px)
                  IN  [bbox |-> b,
                       quality |-> [ink_pixels |-> tg_sum_area(all), cc |-> 0,
                                    edge_touch |-> tg_edge_touch(img, b), is_empty |-> FALSE]]
             ELSE [bbox |-> NoBox,
                   quality |-> [ink_pixels |-> tg_sum_area({img.strict[k] : k \in 1..Len(img.strict)}),
                                cc |-> 0, edge_touch |-> 0, is_empty |-> TRUE]]
        ELSE LET sel == tg_sel(img, comps, tg_best(img, comps, c2))
                 b == tg_square(img, tg_ink_box(img, sel), pad_px)
             IN  [bbox |-> b,
                  quality |-> [ink_pixels |-> tg_sum_area(all), cc |-> Cardinality(sel),
                               edge_touch |-> tg_edge_touch(img, b), is_empty |-> FALSE]]

\* Context crops: blank; faint ink only, enough and too little; one glyph;
\* a glyph with a speck beside it; a glyph of two components and a distant
\* third; a stroke along the left edge; a glyph filling a small crop; an
\* opaque block covering most of a large crop.
ContextCrops ==
    { [w |-> 40, h |-> 50, strict |-> <<>>, faint |-> {}],
      [w |-> 40, h |-> 50, strict |-> <<>>, faint |-> {Box(10, 10, 14, 14)}],
      [w |-> 40, h |-> 50, strict |-> <<>>, faint |-> {Box(5, 5, 7, 8)}],
      [w |-> 40, h |-> 50, strict |-> <<Box(12, 15, 24, 35)>>, faint |-> {}],
      [w |-> 40, h |-> 50, strict |-> <<Box(26, 12, 29, 15), Box(12, 15, 24, 35)>>,
       faint |-> {Box(8, 36, 12, 40)}],
      [w |-> 40, h |-> 50,
       strict |-> <<Box(30, 2, 38, 8), Box(10, 10, 20, 20), Box(10, 22, 20, 30)>>,
       faint |-> {}],
      [w |-> 40, h |-> 40, strict |-> <<Box(0, 0, 8, 40)>>, faint |-> {}],
      [w |-> 8, h |-> 8, strict |-> <<Box(1, 1, 7, 7)>>, faint |-> {}],
      [w |-> 100, h |-> 100, strict |-> <<Box(5, 5, 95, 95)>>, faint |-> {}],
      [w |-> 100, h |-> 100, strict |-> <<Box(5, 5, 95, 95)>>, faint |-> {Box(96, 40, 99, 48)}] }

MaxPad == 8

TrimPads == {0, 3, MaxPad}

TrimIdle ==
    /\ tg_img = [w |-> 1, h |-> 1, strict |-> <<>>, faint |-> {}]
    /\ tg_center = <<0, 0>>
    /\ tg_pad_px = 0
    /\ tg_out = [bbox |-> NoBox, quality |-> NoQuality]
    /\ gpc = "idle"

\* expected_center is the middle of the crop or a point of its upper left
TrimInit ==
    /\ tg_img \in ContextCrops
    /\ tg_center \in {<<tg_img.w, tg_img.h>>, <<tg_img.w \div 2, tg_img.h \div 2>>,
                       <<(3 * tg_img.w) \div 2, tg_img.h>>, <<tg_img.w, (3 * tg_img.h) \div 2>>}
    /\ tg_pad_px \in TrimPads
    /\ tg_out = [bbox |-> NoBox, quality |-> NoQuality]
    /\ gpc = "call"

TrimGlyph ==
    /\ gpc = "call"
    /\ tg_out' = trim_glyph(tg_img, tg_center, tg_pad_px)
    /\ gpc' = "done"
    /\ UNCHANGED <<tg_img, tg_center, tg_pad_px>>

\* the ink the trimmer selected: every loose-mask pixel in the fallback, the
\* selected components otherwise
SelectedInk ==
    LET comps == tg_comps(tg_img, tg_img.strict)
    IN  IF comps = <<>> THEN tg_parts(tg_img, Box(0, 0, tg_img.w, tg_img.h))
        ELSE tg_sel(tg_img, comps, tg_best(tg_img, comps, tg_center))

NothingToTrim ==
    /\ tg_comps(tg_img, tg_img.strict) = <<>>
    /\ tg_sum_area(tg_parts(tg_img, Box(0, 0, tg_img.w, tg_img.h))) < tg_loose_need(tg_img)

\* C24: the trimmer returns no bbox with is_empty = true exactly when no
\* strict component survives filtering and the loose mask lacks the ink for
\* the fallback; otherwise it returns a bbox of positive width and height
\* inside the context crop that contains the selected ink.
C24_EmptyOrBBox ==
    (gpc = "done") =>
        /\ (tg_out.bbox = NoBox /\ tg_out.quality.is_empty) <=> NothingToTrim
        /\ ~NothingToTrim =>
              /\ ~tg_out.quality.is_empty
              /\ 0 <= tg_out.bbox.x0 /\ tg_out.bbox.x0 < tg_out.bbox.x1 /\ tg_out.bbox.x1 <= tg_img.w
              /\ 0 <= tg_out.bbox.y0 /\ tg_out.bbox.y0 < tg_out.bbox.y1 /\ tg_out.bbox.y1 <= tg_img.h
              /\ \A r \in SelectedInk :
                    /\ tg_out.bbox.x0 <= r.x0 /\ r.x1 <= tg_out.bbox.x1
                    /\ tg_out.bbox.y0 <= r.y0 /\ r.y1 <= tg_out.bbox.y1

\* two components selected and returned in a square wider than their ink
C24_Witness ==
    /\ gpc = "done"
    /\ tg_out.quality.cc = 2
    /\ ~tg_out.quality.is_empty
    /\ tg_out.bbox.x1 - tg_out.bbox.x0 = tg_out.bbox.y1 - tg_out.bbox.y0
    /\ \A r \in SelectedInk : tg_out.bbox.x0 < r.x0

\* ------------------------------------------------------------------------
\* Job status file: the service thread of create_job running
\* _run_job_build_dataset, and the workbench_build_dataset subprocess
\* ------------------------------------------------------------------------
\* Both sides update the job file by read_text, json.loads, assignment and
\* write_text.  write_text opens the file for writing, which empties it, and
\* then writes the text; a reader that comes in between finds an empty file.
\* Each of the three steps is one action.

MaxLines == 2

EmptyFile == [ok |-> FALSE, status |-> "", stage |-> "", progress |-> 0]

QueuedJob == [ok |-> TRUE, status |-> "queued", stage |-> "queued", progress |-> 0]

\* _update_job(job_path, ...) as called at each position of the thread
svc_update(pos, cur) ==
    IF pos = "start"
    THEN [cur EXCEPT !.ok = TRUE, !.status = "running", !.stage = "start", !.progress = 1]
    ELSE IF pos = "layout"
    THEN [cur EXCEPT !.ok = TRUE, !.stage = "layout", !.progress = 18]
    ELSE IF pos = "success"
    THEN [cur EXCEPT !.ok = TRUE, !.status = "success", !.stage = "done", !.progress = 100]
    ELSE IF pos = "except"
    THEN [cur EXCEPT !.ok = TRUE, !.status = "fail", !.stage = "fail"]
    ELSE [cur EXCEPT !.ok = TRUE]

\* where the thread goes once the update at pos is written
svc_after(pos) ==
    IF pos = "start" THEN "layout"
    ELSE IF pos = "layout" THEN "popen"
    ELSE IF pos = "loop" THEN "loop"
    ELSE "end"

\* the update_job calls of workbench_build_dataset.main, in order
SubUpdates ==
    <<[stage |-> "layout", progress |-> 10],
      [stage |-> "crop_render", progress |-> 45],
      [stage |-> "done", progress |-> 100]>>

\* update_job(job_file, stage=..., progress=...): status is set to running
update_job(cur, u) ==
    [cur EXCEPT !.status = "running", !.stage = u.stage, !.progress = u.progress]

JobIdle ==
    /\ job_file = EmptyFile
    /\ last_status = ""
    /\ svc_pc = "idle" /\ svc_op = "none" /\ svc_cur = EmptyFile
    /\ sub_k = 0 /\ sub_op = "none" /\ sub_cur = EmptyFile
    /\ pipe_lines = 0 /\ printed = 0 /\ sub_rc = -1

\* create_job has written the queued record and started the thread
JobInit ==
    /\ job_file = QueuedJob
    /\ last_status = "queued"
    /\ svc_pc = "start" /\ svc_op = "read" /\ svc_cur = EmptyFile
    /\ sub_k = 0 /\ sub_op = "none" /\ sub_cur = EmptyFile
    /\ pipe_lines = 0 /\ printed = 0 /\ sub_rc = -1

\* cur = json.loads(job_path.read_text()): an empty file raises, which the
\* except clause of run() turns into _update_job(status="fail"); raised from
\* that call, it ends the thread
SvcRead ==
    /\ svc_op = "read"
    /\ IF job_file.ok
       THEN /\ svc_cur' = job_file
            /\ svc_op' = "truncate"
            /\ UNCHANGED svc_pc
       ELSE /\ svc_cur' = EmptyFile
            /\ IF svc_pc = "except"
               THEN svc_pc' = "dead" /\ svc_op' = "none"
               ELSE svc_pc' = "except" /\ svc_op' = "read"
    /\ UNCHANGED <<job_file, last_status, sub_k, sub_op, sub_cur, pipe_lines, printed, sub_rc>>

SvcTruncate ==
    /\ svc_op = "truncate"
    /\ job_file' = EmptyFile
    /\ svc_op' = "write"
    /\ UNCHANGED <<last_status, svc_pc, svc_cur, sub_k, sub_op, sub_cur, pipe_lines, printed, sub_rc>>

SvcWrite ==
    /\ svc_op = "write"
    /\ job_file' = svc_update(svc_pc, svc_cur)
    /\ last_status' = svc_update(svc_pc, svc_cur).status
    /\ svc_pc' = svc_after(svc_pc)
    /\ svc_op' = IF svc_after(svc_pc) = "layout" THEN "read" ELSE "none"
    /\ UNCHANGED <<svc_cur, sub_k, sub_op, sub_cur, pipe_lines, printed, sub_rc>>

\* subprocess.Popen(cmd, stdout=PIPE, stderr=STDOUT)
SvcPopen ==
    /\ svc_pc = "popen"
    /\ svc_pc' = "loop"
    /\ sub_op' = "idle"
    /\ UNCHANGED <<job_file, last_status, svc_op, svc_cur, sub_k, sub_cur, pipe_lines, printed, sub_rc>>

\* for line in p.stdout: self._update_job(job_path, log_tail=...)
SvcReadLine ==
    /\ svc_pc = "loop" /\ svc_op = "none"
    /\ pipe_lines > 0
    /\ pipe_lines' = pipe_lines - 1
    /\ svc_op' = "read"
    /\ UNCHANGED <<job_file, last_status, svc_pc, svc_cur, sub_k, sub_op, sub_cur, printed, sub_rc>>

\* end of the pipe, rc = p.wait(): raise on rc != 0, else zip and report success
SvcWait ==
    /\ svc_pc = "loop" /\ svc_op = "none"
    /\ pipe_lines = 0 /\ sub_op = "exited"
    /\ svc_pc' = IF sub_rc # 0 THEN "except" ELSE "success"
    /\ svc_op' = "read"
    /\ UNCHANGED <<job_file, last_status, svc_cur, sub_k, sub_op, sub_cur, pipe_lines, printed, sub_rc>>

\* the subprocess reaches its next update_job call
SubBegin ==
    /\ sub_op = "idle"
    /\ sub_k < Len(SubUpdates)
    /\ sub_k' = sub_k + 1
    /\ sub_op' = "read"
    /\ UNCHANGED <<job_file, last_status, svc_pc, svc_op, svc_cur, sub_cur, pipe_lines, printed, sub_rc>>

\* try: cur = json.loads(...) except Exception: return
SubRead ==
    /\ sub_op = "read"
    /\ IF job_file.ok
       THEN sub_cur' = job_file /\ sub_op' = "truncate"
       ELSE sub_cur' = EmptyFile /\ sub_op' = "idle"
    /\ UNCHANGED <<job_file, last_status, svc_pc, svc_op, svc_cur, sub_k, pipe_lines, printed, sub_rc>>

SubTruncate ==
    /\ sub_op = "truncate"
    /\ job_file' = EmptyFile
    /\ sub_op' = "write"
    /\ UNCHANGED <<last_status, svc_pc, svc_op, svc_cur, sub_k, sub_cur, pipe_lines, printed, sub_rc>>

SubWrite ==
    /\ sub_op = "write"
    /\ job_file' = update_job(sub_cur, SubUpdates[sub_k])
    /\ last_status' = update_job(sub_cur, SubUpdates[sub_k]).status
    /\ sub_op' = "idle"
    /\ UNCHANGED <<svc_pc, svc_op, svc_cur, sub_k, sub_cur, pipe_lines, printed, sub_rc>>

\* a line reaches the pipe: a warning on stderr, or flushed output
SubPrint ==
    /\ sub_op = "idle"
    /\ printed < MaxLines
    /\ printed' = printed + 1
    /\ pipe_lines' = pipe_lines + 1
    /\ UNCHANGED <<job_file, last_status, svc_pc, svc_op, svc_cur, sub_k, sub_op, sub_cur, sub_rc>>

\* the script returns 0 after its last update, or dies earlier
SubExit ==
    /\ sub_op = "idle"
    /\ sub_rc' = IF sub_k = Len(SubUpdates) THEN 0 ELSE 1
    /\ sub_op' = "exited"
    /\ UNCHANGED <<job_file, last_status, svc_pc, svc_op, svc_cur, sub_k, sub_cur, pipe_lines, printed>>

JobStep ==
    \/ SvcRead \/ SvcTruncate \/ SvcWrite \/ SvcPopen \/ SvcReadLine \/ SvcWait
    \/ SubBegin \/ SubRead \/ SubTruncate \/ SubWrite \/ SubPrint \/ SubExit

\* C29: once the job file records success or fail no later write changes the
\* status, whatever the interleaving of the thread's and the subprocess's
\* updates: a job never goes from success or fail back to running.
C29_TerminalStatusFinal ==
    [][(last_status \in {"success", "fail"}) => (last_status' = last_status)]_vars

\* ------------------------------------------------------------------------
\* Job creation: WorkbenchService.create_job called repeatedly for one project
\* ------------------------------------------------------------------------
\* The wall clock is counted in seconds, the resolution of
\* time.strftime("%Y%m%d_%H%M%S"); a job id is the second of its creation.
\* Every export_dataset call gets the next dataset directory, which tells
\* the records of different calls apart.  A thread's _update_job calls are
\* taken whole here.

MaxClock == 2

MaxJobs == 3

\* job_id = time.strftime("%Y%m%d_%H%M%S")
job_id_at(t) == t

\* the record create_job writes for its n-th call
QueuedRecord(n) == [dataset_dir |-> n, status |-> "queued"]

CreateIdle ==
    /\ clock = 0
    /\ created = <<>>
    /\ jobs_dir = <<>>
    /\ thread_pc = <<>>

CreateInit ==
    /\ clock = 0
    /\ created = <<>>
    /\ jobs_dir = <<>>
    /\ thread_pc = <<>>

\* a second passes
Tick ==
    /\ clock < MaxClock
    /\ clock' = clock + 1
    /\ UNCHANGED <<created, jobs_dir, thread_pc>>

\* create_job: job_path.write_text(queued record), then the thread is started
CreateJob ==
    /\ Len(created) < MaxJobs
    /\ LET n == Len(created) + 1
           id == job_id_at(clock)
       IN  /\ created' = Append(created, id)
           /\ jobs_dir' = (id :> QueuedRecord(n)) @@ jobs_dir
           /\ thread_pc' = Append(thread_pc, "start")
    /\ UNCHANGED clock

\* the thread of call c: _update_job(job_path, status="running", ...)
ThreadStart(c) ==
    /\ thread_pc[c] = "start"
    /\ jobs_dir' = [jobs_dir EXCEPT ![created[c]].status = "running"]
    /\ thread_pc' = [thread_pc EXCEPT ![c] = "run"]
    /\ UNCHANGED <<clock, created>>

\* the thread of call c: _update_job(job_path, status="success" or "fail", ...)
ThreadFinish(c) ==
    /\ thread_pc[c] = "run"
    /\ \E st \in {"success", "fail"} :
          jobs_dir' = [jobs_dir EXCEPT ![created[c]].status = st]
    /\ thread_pc' = [thread_pc EXCEPT ![c] = "end"]
    /\ UNCHANGED <<clock, created>>

CreateStep ==
    \/ Tick
    \/ CreateJob
    \/ \E c \in 1..Len(created) : ThreadStart(c)
    \/ \E c \in 1..Len(created) : ThreadFinish(c)

\* C30: any two create_job calls for the same project, however close in
\* time, get distinct job ids and distinct status files, so that the record
\* of one job is never overwritten by the writes of another.
C30_DistinctJobs ==
    /\ \A c1, c2 \in 1..Len(created) : (c1 # c2) => (created[c1] # created[c2])
    /\ \A c \in 1..Len(created) :
          /\ jobs_dir[created[c]].dataset_dir = c
          /\ (thread_pc[c] = "start") => (jobs_dir[created[c]].status = "queued")
          /\ (thread_pc[c] = "run") => (jobs_dir[created[c]].status = "running")
          /\ (thread_pc[c] = "end") => (jobs_dir[created[c]].status \in {"success", "fail"})

\* ------------------------------------------------------------------------
\* Specifications: one per component, the other components stay idle
\* ------------------------------------------------------------------------
AlignNext ==
    /\ AlignStep
    /\ UNCHANGED <<axVars, rfVars, ixVars, odVars, qaVars, mkVars, clVars, scVars, rnVars, spVars, exVars, ctVars, tgVars, jbVars, cjVars>>

InitAlign ==
    /\ AlignInit
    /\ AxisIdle /\ RefineIdle /\ IndexIdle /\ OrderIdle /\ QaIdle /\ MaskIdle /\ ClampIdle /\ ColumnIdle /\ RenderIdle /\ SplitIdle /\ ExpandIdle /\ ContactIdle /\ TrimIdle /\ JobIdle /\ CreateIdle

SpecAlign == InitAlign /\ [][AlignNext]_vars

AxisNext ==
    /\ SplitAxis
    /\ UNCHANGED <<alVars, rfVars, ixVars, odVars, qaVars, mkVars, clVars, scVars, rnVars, spVars, exVars, ctVars, tgVars, jbVars, cjVars>>

InitAxis ==
    /\ AxisInit
    /\ AlignIdle /\ RefineIdle /\ IndexIdle /\ OrderIdle /\ QaIdle /\ MaskIdle /\ ClampIdle /\ ColumnIdle /\ RenderIdle /\ SplitIdle /\ ExpandIdle /\ ContactIdle /\ TrimIdle /\ JobIdle /\ CreateIdle

SpecAxis == InitAxis /\ [][AxisNext]_vars

RefineNext ==
    /\ RefineStep
    /\ UNCHANGED <<alVars, axVars, ixVars, odVars, qaVars, mkVars, clVars, scVars, rnVars, spVars, exVars, ctVars, tgVars, jbVars, cjVars>>

InitRefine ==
    /\ RefineInit
    /\ AlignIdle /\ AxisIdle /\ IndexIdle /\ OrderIdle /\ QaIdle /\ MaskIdle /\ ClampIdle /\ ColumnIdle /\ RenderIdle /\ SplitIdle /\ ExpandIdle /\ ContactIdle /\ TrimIdle /\ JobIdle /\ CreateIdle

SpecRefine == InitRefine /\ [][RefineNext]_vars

IndexNext ==
    /\ IndexStep
    /\ UNCHANGED <<alVars, axVars, rfVars, odVars, qaVars, mkVars, clVars, scVars, rnVars, spVars, exVars, ctVars, tgVars, jbVars, cjVars>>

InitIndex ==
    /\ IndexInit
    /\ AlignIdle /\ AxisIdle /\ RefineIdle /\ OrderIdle /\ QaIdle /\ MaskIdle /\ ClampIdle /\ ColumnIdle /\ RenderIdle /\ SplitIdle /\ ExpandIdle /\ ContactIdle /\ TrimIdle /\ JobIdle /\ CreateIdle

SpecIndex == InitIndex /\ [][IndexNext]_vars

OrderNext ==
    /\ OrderStep
    /\ UNCHANGED <<alVars, axVars, rfVars, ixVars, qaVars, mkVars, clVars, scVars, rnVars, spVars, exVars, ctVars, tgVars, jbVars, cjVars>>

InitOrder ==
    /\ OrderInit
    /\ AlignIdle /\ AxisIdle /\ RefineIdle /\ IndexIdle /\ QaIdle /\ MaskIdle /\ ClampIdle /\ ColumnIdle /\ RenderIdle /\ SplitIdle /\ ExpandIdle /\ ContactIdle /\ TrimIdle /\ JobIdle /\ CreateIdle

SpecOrder == InitOrder /\ [][OrderNext]_vars

QaNext ==
    /\ QaStep
    /\ UNCHANGED <<alVars, axVars, rfVars, ixVars, odVars, mkVars, clVars, scVars, rnVars, spVars, exVars, ctVars, tgVars, jbVars, cjVars>>

InitQa ==
    /\ QaInit
    /\ AlignIdle /\ AxisIdle /\ RefineIdle /\ IndexIdle /\ OrderIdle /\ MaskIdle /\ ClampIdle /\ ColumnIdle /\ RenderIdle /\ SplitIdle /\ ExpandIdle /\ ContactIdle /\ TrimIdle /\ JobIdle /\ CreateIdle

SpecQa == InitQa /\ [][QaNext]_vars

MaskNext ==
    /\ MaskStep
    /\ UNCHANGED <<alVars, axVars, rfVars, ixVars, odVars, qaVars, clVars, scVars, rnVars, spVars, exVars, ctVars, tgVars, jbVars, cjVars>>

InitMask ==
    /\ MaskInit
    /\ AlignIdle /\ AxisIdle /\ RefineIdle /\ IndexIdle /\ OrderIdle /\ QaIdle /\ ClampIdle /\ ColumnIdle /\ RenderIdle /\ SplitIdle /\ ExpandIdle /\ ContactIdle /\ TrimIdle /\ JobIdle /\ CreateIdle

SpecMask == InitMask /\ [][MaskNext]_vars

ClampNext ==
    /\ ClampStep
    /\ UNCHANGED <<alVars, axVars, rfVars, ixVars, odVars, qaVars, mkVars, scVars, rnVars, spVars, exVars, ctVars, tgVars, jbVars, cjVars>>

InitClamp ==
    /\ ClampInit
    /\ AlignIdle /\ AxisIdle /\ RefineIdle /\ IndexIdle /\ OrderIdle /\ QaIdle /\ MaskIdle /\ ColumnIdle /\ RenderIdle /\ SplitIdle /\ ExpandIdle /\ ContactIdle /\ TrimIdle /\ JobIdle /\ CreateIdle

SpecClamp == InitClamp /\ [][ClampNext]_vars

ColumnNext ==
    /\ SplitColumn
    /\ UNCHANGED <<alVars, axVars, rfVars, ixVars, odVars, qaVars, mkVars, clVars, rnVars, spVars, exVars, ctVars, tgVars, jbVars, cjVars>>

InitColumn ==
    /\ ColumnInit
    /\ AlignIdle /\ AxisIdle /\ RefineIdle /\ IndexIdle /\ OrderIdle /\ QaIdle /\ MaskIdle /\ ClampIdle /\ RenderIdle /\ SplitIdle /\ ExpandIdle /\ ContactIdle /\ TrimIdle /\ JobIdle /\ CreateIdle

SpecColumn == InitColumn /\ [][ColumnNext]_vars

RenderNext ==
    /\ RenderStep
    /\ UNCHANGED <<alVars, axVars, rfVars, ixVars, odVars, qaVars, mkVars, clVars, scVars, spVars, exVars, ctVars, tgVars, jbVars, cjVars>>

InitRender ==
    /\ RenderInit
    /\ AlignIdle /\ AxisIdle /\ RefineIdle /\ IndexIdle /\ OrderIdle /\ QaIdle /\ MaskIdle /\ ClampIdle /\ ColumnIdle /\ SplitIdle /\ ExpandIdle /\ ContactIdle /\ TrimIdle /\ JobIdle /\ CreateIdle

SpecRender == InitRender /\ [][RenderNext]_vars

SplitNext ==
    /\ SplitStep
    /\ UNCHANGED <<alVars, axVars, rfVars, ixVars, odVars, qaVars, mkVars, clVars, scVars, rnVars, exVars, ctVars, tgVars, jbVars, cjVars>>

InitSplit ==
    /\ SplitInit
    /\ AlignIdle /\ AxisIdle /\ RefineIdle /\ IndexIdle /\ OrderIdle /\ QaIdle /\ MaskIdle /\ ClampIdle /\ ColumnIdle /\ RenderIdle /\ ExpandIdle /\ ContactIdle /\ TrimIdle /\ JobIdle /\ CreateIdle

SpecSplit == InitSplit /\ [][SplitNext]_vars

ExpandNext ==
    /\ ExpandStep
    /\ UNCHANGED <<alVars, axVars, rfVars, ixVars, odVars, qaVars, mkVars, clVars, scVars, rnVars, spVars, ctVars, tgVars, jbVars, cjVars>>

InitExpand ==
    /\ ExpandInit
    /\ AlignIdle /\ AxisIdle /\ RefineIdle /\ IndexIdle /\ OrderIdle /\ QaIdle /\ MaskIdle /\ ClampIdle /\ ColumnIdle /\ RenderIdle /\ SplitIdle /\ ContactIdle /\ TrimIdle /\ JobIdle /\ CreateIdle

SpecExpand == InitExpand /\ [][ExpandNext]_vars

ContactNext ==
    /\ ContactStep
    /\ UNCHANGED <<alVars, axVars, rfVars, ixVars, odVars, qaVars, mkVars, clVars, scVars, rnVars, spVars, exVars, tgVars, jbVars, cjVars>>

InitContact ==
    /\ ContactInit
    /\ AlignIdle /\ AxisIdle /\ RefineIdle /\ IndexIdle /\ OrderIdle /\ QaIdle /\ MaskIdle /\ ClampIdle /\ ColumnIdle /\ RenderIdle /\ SplitIdle /\ ExpandIdle /\ TrimIdle /\ JobIdle /\ CreateIdle

SpecContact == InitContact /\ [][ContactNext]_vars

TrimNext ==
    /\ TrimGlyph
    /\ UNCHANGED <<alVars, axVars, rfVars, ixVars, odVars, qaVars, mkVars, clVars, scVars, rnVars, spVars, exVars, ctVars, jbVars, cjVars>>

InitTrim ==
    /\ TrimInit
    /\ AlignIdle /\ AxisIdle /\ RefineIdle /\ IndexIdle /\ OrderIdle /\ QaIdle /\ MaskIdle /\ ClampIdle /\ ColumnIdle /\ RenderIdle /\ SplitIdle /\ ExpandIdle /\ ContactIdle /\ JobIdle /\ CreateIdle

SpecTrim == InitTrim /\ [][TrimNext]_vars

JobNext ==
    /\ JobStep
    /\ UNCHANGED <<alVars, axVars, rfVars, ixVars, odVars, qaVars, mkVars, clVars, scVars, rnVars, spVars, exVars, ctVars, tgVars, cjVars>>

InitJob ==
    /\ JobInit
    /\ AlignIdle /\ AxisIdle /\ RefineIdle /\ IndexIdle /\ OrderIdle /\ QaIdle /\ MaskIdle /\ ClampIdle /\ ColumnIdle /\ RenderIdle /\ SplitIdle /\ ExpandIdle /\ ContactIdle /\ TrimIdle /\ CreateIdle

SpecJob == InitJob /\ [][JobNext]_vars

CreateNext ==
    /\ CreateStep
    /\ UNCHANGED <<alVars, axVars, rfVars, ixVars, odVars, qaVars, mkVars, clVars, scVars, rnVars, spVars, exVars, ctVars, tgVars, jbVars>>

InitCreate ==
    /\ CreateInit
    /\ AlignIdle /\ AxisIdle /\ RefineIdle /\ IndexIdle /\ OrderIdle /\ QaIdle /\ MaskIdle /\ ClampIdle /\ ColumnIdle /\ RenderIdle /\ SplitIdle /\ ExpandIdle /\ ContactIdle /\ TrimIdle /\ JobIdle

SpecCreate == InitCreate /\ [][CreateNext]_vars

====
